---- MODULE Spec2Model ----
(***************************************************************************)
(* Ninja RMM -> Snipe-IT asset synchronisation (SnipeService).             *)
(*                                                                         *)
(* Spec      one run of SnipeService.syncDevices against a target system   *)
(*           (bulk preload, then one device at a time).  Every request of  *)
(*           the run goes through rateLimitedRequest; here the gate is     *)
(*           seen through what it hands back: a response or a throw.       *)
(* GateSpec  SnipeService.rateLimitedRequest itself, with a clock: the     *)
(*           pre-dispatch wait, the attempts and the 429 backoff.          *)
(* OpenSpec, OpenModelSpec  a run while another client adds a category or  *)
(*           a model to the target.                                        *)
(* StaleSpec a run against a target whose models predate what the devices  *)
(*           report.                                                       *)
(* NinjaSpec NinjaService.processDevices on a listing of raw devices, and  *)
(*           the category name of each nodeClass.                          *)
(*                                                                         *)
(* Strings that the code lowercases are sequences of characters, so that   *)
(* toLowerCase is computed; strings that are only compared with === are    *)
(* TLA+ strings.  An id of 0 stands for JavaScript's undefined.            *)
(***************************************************************************)
EXTENDS Integers, Sequences, FiniteSets, TLC

VARIABLES
    devices,              \* the processed devices handed to syncDevices
    dialect,              \* shape of the target's answers to writes
    tCategories,          \* target system: categories
    tManufacturers,       \* target system: manufacturers
    tModels,              \* target system: models
    tHardware,            \* target system: assets
    categoryCache,        \* this.categoryCache
    manufacturerCache,    \* this.manufacturerCache
    modelCache,           \* this.modelCache
    assetsBySerial,       \* syncDevices local map
    modelsByName,         \* syncDevices local map
    manufacturersByName,  \* syncDevices local map
    pc,                   \* position of the run
    i,                    \* index of the device being processed
    manufacturer,         \* syncDeviceWithCache local
    model,                \* syncDeviceWithCache local
    ret,                  \* what awaits the category: "put" or "post"
    category,             \* result of getOrCreateAssetCategory
    calls,                \* every request issued to the target, in order
    writes,               \* every asset write issued, with its payload
    status,               \* per device: pending, synced or failed
    resolved,             \* devices whose manufacturer and model resolved
    now,                  \* Date.now()
    lastRequestTime,      \* this.lastRequestTime
    gpc,                  \* position inside rateLimitedRequest
    attempts,             \* invocations of requestFn in the current call
    firstOutcome,         \* outcome of the first invocation of the call
    timer,                \* delay of the setTimeout being awaited
    firstDoneAt,          \* time at which the first attempt of the call ended
    gateCalls,            \* calls of rateLimitedRequest so far
    dispatches,           \* times at which requestFn was invoked
    outcomes,             \* outcome of each invocation, in order
    gateResult,           \* how the last call ended
    env,                  \* process.env: the configuration options that are set
    hpc,                  \* position of the getDevices handler
    netCalls,             \* requests made to the device directory, in order
    reported,             \* the count the handler returns; -1 before it returns
    issued,               \* requests handed to rateLimitedRequest, in order
    settled,              \* how many of them have returned or thrown
    raw,                  \* the device directory's listing, as getDevices returns it
    processed,            \* what processDevices returns for it
    npc,                  \* position of the normalisation
    names                 \* the category names found for the listing's nodeClasses

syncVars == <<devices, dialect, tCategories, tManufacturers, tModels, tHardware,
              categoryCache, manufacturerCache, modelCache, assetsBySerial,
              modelsByName, manufacturersByName, pc, i, manufacturer, model,
              ret, category, calls, writes, status, resolved>>

gateVars == <<now, lastRequestTime, gpc, attempts, firstOutcome, timer, firstDoneAt,
              gateCalls, dispatches, outcomes, gateResult>>

hostVars == <<env, hpc, netCalls, reported>>

flightVars == <<issued, settled>>

ninjaVars == <<raw, processed, npc, names>>

\* What a step of syncDevices leaves alone.
outside == <<gateVars, hostVars, flightVars, ninjaVars>>

\* What a step of rateLimitedRequest on its own leaves alone.
caller == <<syncVars, hostVars, flightVars, ninjaVars>>

vars == <<syncVars, gateVars, hostVars, flightVars, ninjaVars>>

----------------------------------------------------------------------------
(* Bounds of the model *)

MaxDevices == 2

MaxCalls == 3

MaxAbsent == 1

MaxRaw == 3

----------------------------------------------------------------------------
(* String.prototype.toLowerCase *)

UpperLetters ==
    <<"A","B","C","D","E","F","G","H","I","J","K","L","M",
      "N","O","P","Q","R","S","T","U","V","W","X","Y","Z">>

LowerLetters ==
    <<"a","b","c","d","e","f","g","h","i","j","k","l","m",
      "n","o","p","q","r","s","t","u","v","w","x","y","z">>

LowerChar(c) ==
    IF \E k \in DOMAIN UpperLetters : UpperLetters[k] = c
    THEN LowerLetters[CHOOSE k \in DOMAIN UpperLetters : UpperLetters[k] = c]
    ELSE c

ToLowerCase(s) == [k \in 1..Len(s) |-> LowerChar(s[k])]

----------------------------------------------------------------------------
(* Names *)

sDell == <<"D","e","l","l">>
sHP == <<"H","P">>
sOptiPlex == <<"O","p","t","i","P","l","e","x">>
sLatitude == <<"L","a","t","i","t","u","d","e">>
sUnknown == <<"U","n","k","n","o","w","n">>
sSN1 == <<"S","N","1">>
ssn1 == <<"s","n","1">>
sPC1 == <<"P","C","1">>
sPC2 == <<"P","C","2">>
sNAS1 == <<"N","A","S","1">>
sNAS2 == <<"N","A","S","2">>
sCorp == <<"c","o","r","p">>
sWindowsServers == <<"W","i","n","d","o","w","s"," ","S","e","r","v","e","r","s">>
sWindowsWorkstations ==
    <<"W","i","n","d","o","w","s"," ","W","o","r","k","s","t","a","t","i","o","n","s">>
sVMwareHosts == <<"V","M","w","a","r","e"," ","H","o","s","t","s">>
sOtherHardware == <<"O","t","h","e","r"," ","H","a","r","d","w","a","r","e">>

----------------------------------------------------------------------------
(* Devices as NinjaService.processDevices hands them over *)

GiB == 1024 * 1024 * 1024

Device(id, systemName, nodeClass, man, mod, serial, cpus, mem) ==
    [id |-> id, systemName |-> systemName, nodeClass |-> nodeClass,
     system |-> [manufacturer |-> man, model |-> mod, serialNumber |-> serial,
                 numberOfProcessors |-> cpus, totalPhysicalMemory |-> mem,
                 domain |-> sCorp, domainRole |-> sUnknown]]

DevicePool ==
    { Device(1, sPC1, "WINDOWS_WORKSTATION", sDell, sOptiPlex, sSN1, 4, GiB),
      Device(2, sPC2, "WINDOWS_SERVER", sHP, sOptiPlex, ssn1, 2, (GiB \div 2) - 1),
      Device(3, sNAS1, "LINUX_SERVER", sUnknown, sUnknown, sUnknown, 0, 0),
      Device(4, sNAS2, "LINUX_SERVER", sUnknown, sUnknown, sUnknown, 1, GiB \div 2) }

\* The device directory lists a device once: the ids of a list are distinct.
DeviceLists ==
    { l \in UNION { [1..n -> DevicePool] : n \in 1..MaxDevices } :
        \A a, b \in DOMAIN l : a # b => l[a].id # l[b].id }

----------------------------------------------------------------------------
(* The target system *)

NoRef == [id |-> 0, name |-> <<>>]

NoModel == [id |-> 0, name |-> <<>>, manufacturer |-> NoRef, category |-> NoRef]

Ref(id, name) == [id |-> id, name |-> name]

ModelRow(id, name, manufacturer_id, category_id) ==
    [id |-> id, name |-> name, manufacturer_id |-> manufacturer_id,
     category_id |-> category_id]

AssetRow(id, name, serial, model_id, manufacturer_id, model_number, cpus, mem) ==
    [id |-> id, name |-> name, serial |-> serial, model |-> [id |-> model_id],
     manufacturer |-> [id |-> manufacturer_id], model_number |-> model_number,
     custom_fields |-> [_snipeit_processor_count_1 |-> cpus, _snipeit_memory_2 |-> mem]]

\* A fresh target; a target as an earlier run over PC1 and NAS1 left it; a
\* target whose OptiPlex model and sn1 asset have drifted from the directory.
TargetPool ==
    { [categories |-> <<>>, manufacturers |-> <<>>, models |-> <<>>, hardware |-> <<>>],
      [categories |-> <<Ref(1, sWindowsWorkstations), Ref(2, sOtherHardware)>>,
       manufacturers |-> <<Ref(1, sDell), Ref(2, sUnknown)>>,
       models |-> <<ModelRow(1, sOptiPlex, 1, 1), ModelRow(2, sUnknown, 2, 2)>>,
       hardware |-> <<AssetRow(1, sPC1, sSN1, 1, 1, sOptiPlex, 4, 1),
                      AssetRow(2, sNAS1, sUnknown, 2, 2, sUnknown, 0, 0)>>],
      [categories |-> <<Ref(1, sWindowsWorkstations)>>,
       manufacturers |-> <<Ref(1, sDell), Ref(2, sHP)>>,
       models |-> <<ModelRow(1, sOptiPlex, 2, 1), ModelRow(2, sLatitude, 1, 1)>>,
       hardware |-> <<AssetRow(1, sPC2, ssn1, 2, 1, sLatitude, 8, 16)>>] }

\* Writes are answered {status, payload} with the stored row as payload
\* ("envelope"), or with the bare record as the listings show it ("bare").
Dialects == {"envelope", "bare"}

RowById(rows, id) == rows[CHOOSE k \in DOMAIN rows : rows[k].id = id]

HasId(rows, id) == \E k \in DOMAIN rows : rows[k].id = id

\* A model as the listings, the search and GET models/<id> show it.
ModelView(r, categories) ==
    [id |-> r.id, name |-> r.name,
     manufacturer |-> [id |-> r.manufacturer_id, name |-> <<>>],
     category |-> IF HasId(categories, r.category_id)
                  THEN RowById(categories, r.category_id) ELSE NoRef]

\* A model as the answer to POST models or PUT models/<id> carries it.
ModelPayload(r, categories, d) ==
    IF d = "envelope"
    THEN [id |-> r.id, name |-> r.name, manufacturer |-> NoRef, category |-> NoRef]
    ELSE ModelView(r, categories)

\* response.data of a write: answered "ok", or "rejected" (HTTP 200 whose body
\* says status error).
Reply(out, record, d) ==
    IF out = "rejected"
    THEN [enveloped |-> TRUE, status |-> "error", hasPayload |-> FALSE]
    ELSE [enveloped |-> d = "envelope", status |-> "success", hasPayload |-> TRUE,
          record |-> record]

ReadOutcomes == {"ok", "err"}

WriteOutcomes == {"ok", "rejected", "err"}

----------------------------------------------------------------------------
(* Maps *)

EmptyMap == [k \in {} |-> NoRef]

MapSet(m, k, v) == [x \in DOMAIN m \cup {k} |-> IF x = k THEN v ELSE m[x]]

\* new Map(rows.map(r => [key(r), r])): a later row replaces an earlier one.
LastIndex(keys, k) == CHOOSE a \in DOMAIN keys : keys[a] = k /\ \A b \in DOMAIN keys : keys[b] = k => b <= a

MapOf(keys, rows) ==
    [k \in { keys[a] : a \in DOMAIN keys } |-> rows[LastIndex(keys, k)]]

AssetsBySerial_RawKey(rows) == MapOf([a \in DOMAIN rows |-> rows[a].serial], rows)

AssetsBySerial(rows) == MapOf([a \in DOMAIN rows |-> ToLowerCase(rows[a].serial)], rows)

ByLowerName_RawKey(rows) == MapOf([a \in DOMAIN rows |-> rows[a].name], rows)

ByLowerName(rows) == MapOf([a \in DOMAIN rows |-> ToLowerCase(rows[a].name)], rows)

----------------------------------------------------------------------------
(* Pure functions of SnipeService *)

CategoryNameFor_NoHosts(nodeClass) ==
    CASE nodeClass = "WINDOWS_SERVER" -> sWindowsServers
      [] nodeClass = "WINDOWS_WORKSTATION" -> sWindowsWorkstations
      [] OTHER -> sOtherHardware

\* The switch of getOrCreateAssetCategory.
CategoryNameFor(nodeClass) ==
    CASE nodeClass = "WINDOWS_SERVER" -> sWindowsServers
      [] nodeClass = "WINDOWS_WORKSTATION" -> sWindowsWorkstations
      [] nodeClass = "VMWARE_VM_HOST" -> sVMwareHosts
      [] OTHER -> sOtherHardware

getExpectedCategoryName_ServersAsOther(nodeClass) ==
    CASE nodeClass = "WINDOWS_WORKSTATION" -> sWindowsWorkstations
      [] nodeClass = "VMWARE_VM_HOST" -> sVMwareHosts
      [] OTHER -> sOtherHardware

getExpectedCategoryName(nodeClass) ==
    CASE nodeClass = "WINDOWS_SERVER" -> sWindowsServers
      [] nodeClass = "WINDOWS_WORKSTATION" -> sWindowsWorkstations
      [] nodeClass = "VMWARE_VM_HOST" -> sVMwareHosts
      [] OTHER -> sOtherHardware

isModelCategoryCorrect(m, nodeClass) ==
    ToLowerCase(m.category.name) = ToLowerCase(getExpectedCategoryName(nodeClass))

\* model.manufacturer.id !== manufacturer.id || !isModelCategoryCorrect(...)
NeedsUpdate(m, man, nodeClass) ==
    m.manufacturer.id # man.id \/ ~isModelCategoryCorrect(m, nodeClass)

MemoryGiB_Floor(bytes) == bytes \div GiB

\* Math.round(bytes / 2^30): the nearest integer, halves upwards.
MemoryGiB(bytes) == (bytes + (GiB \div 2)) \div GiB

CustomFields(device) ==
    [_snipeit_processor_count_1 |-> device.system.numberOfProcessors,
     _snipeit_memory_2 |-> MemoryGiB(device.system.totalPhysicalMemory)]

\* The notes text without its timestamp, which this model does not follow.
Notes(device) == [domain |-> device.system.domain, role |-> device.system.domainRole]

StructuralKeys == {"name", "model_id", "manufacturer_id", "model_number"}

ChangedKeys(device, existingAsset, m, man) ==
    { k \in StructuralKeys :
        CASE k = "name" -> device.systemName # existingAsset.name
          [] k = "model_id" -> m.id # existingAsset.model.id
          [] k = "manufacturer_id" -> man.id # existingAsset.manufacturer.id
          [] OTHER -> device.system.model # existingAsset.model_number }

FieldsOf(keys, device, m, man) ==
    [k \in keys |->
        CASE k = "name" -> device.systemName
          [] k = "model_id" -> m.id
          [] k = "manufacturer_id" -> man.id
          [] k = "model_number" -> device.system.model
          [] k = "custom_fields" -> CustomFields(device)
          [] OTHER -> Notes(device)]

getChangedFields_OnlyChanges(device, existingAsset, m, man) ==
    FieldsOf(ChangedKeys(device, existingAsset, m, man), device, m, man)

getChangedFields_NoManufacturer(device, existingAsset, m, man) ==
    FieldsOf((ChangedKeys(device, existingAsset, m, man) \ {"manufacturer_id"})
                \cup {"custom_fields", "notes"}, device, m, man)

getChangedFields(device, existingAsset, m, man) ==
    FieldsOf(ChangedKeys(device, existingAsset, m, man) \cup {"custom_fields", "notes"},
             device, m, man)

createAssetData(device, m, man) ==
    [status_id |-> 1, model_id |-> m.id, name |-> device.systemName,
     serial |-> device.system.serialNumber, manufacturer_id |-> man.id,
     model_number |-> device.system.model, notes |-> Notes(device),
     custom_fields |-> CustomFields(device)]

\* The target's asset for a POST hardware that it accepts.
CreatedAsset(id, data) ==
    [id |-> id, name |-> data.name, serial |-> data.serial,
     model |-> [id |-> data.model_id], manufacturer |-> [id |-> data.manufacturer_id],
     model_number |-> data.model_number, custom_fields |-> data.custom_fields]

\* The target's asset after a PATCH hardware/<id> that it accepts.  A field
\* whose value is undefined is not in the JSON body.
Sent(fields, k) ==
    k \in DOMAIN fields /\ (k \in {"model_id", "manufacturer_id"} => fields[k] # 0)

PatchedAsset(a, fields) ==
    [id |-> a.id,
     name |-> IF Sent(fields, "name") THEN fields.name ELSE a.name,
     serial |-> a.serial,
     model |-> IF Sent(fields, "model_id") THEN [id |-> fields.model_id] ELSE a.model,
     manufacturer |-> IF Sent(fields, "manufacturer_id")
                      THEN [id |-> fields.manufacturer_id] ELSE a.manufacturer,
     model_number |-> IF Sent(fields, "model_number")
                      THEN fields.model_number ELSE a.model_number,
     custom_fields |-> IF Sent(fields, "custom_fields")
                       THEN fields.custom_fields ELSE a.custom_fields]

----------------------------------------------------------------------------
(* The gate's constants *)

requestDelay == 1000

----------------------------------------------------------------------------
(* A run of syncDevices *)

GateIdle ==
    /\ now = 0 /\ lastRequestTime = 0 /\ gpc = "idle" /\ attempts = 0
    /\ firstOutcome = "none" /\ timer = 0 /\ firstDoneAt = 0 /\ gateCalls = 0
    /\ dispatches = <<>> /\ outcomes = <<>> /\ gateResult = "none"

\* The configuration options the handler and the services read.
Options ==
    {"NinjaBaseUrl", "NinjaClientID", "NinjaClientSecret", "NinjaAuthEndpoint",
     "NinjaDeviceDetailEndpoint", "SnipeBaseURL", "SnipeAPIKey"}

\* syncDevices seen on its own: the handler has called it, nothing is reported.
HostIdle == env = Options /\ hpc = "sync" /\ netCalls = <<>> /\ reported = -1

FlightIdle == issued = <<>> /\ settled = 0

NinjaIdle == raw = <<>> /\ processed = <<>> /\ npc = "idle" /\ names = <<>>

\* A fresh SnipeService, the devices it is given and the target it talks to.
RunInit ==
    /\ devices \in DeviceLists
    /\ dialect \in Dialects
    /\ \E t \in TargetPool :
          /\ tCategories = t.categories
          /\ tManufacturers = t.manufacturers
          /\ tModels = t.models
          /\ tHardware = t.hardware
    /\ categoryCache = EmptyMap
    /\ manufacturerCache = EmptyMap
    /\ modelCache = EmptyMap
    /\ assetsBySerial = EmptyMap
    /\ modelsByName = EmptyMap
    /\ manufacturersByName = EmptyMap
    /\ pc = "categories"
    /\ i = 0
    /\ manufacturer = NoRef
    /\ model = NoModel
    /\ ret = "none"
    /\ category = NoRef
    /\ calls = <<>>
    /\ writes = <<>>
    /\ status = [k \in DOMAIN devices |-> "pending"]
    /\ resolved = {}

Init == RunInit /\ GateIdle /\ HostIdle /\ FlightIdle /\ NinjaIdle

Called(op, out) == calls' = Append(calls, [dev |-> i, op |-> op, out |-> out])

target == <<tCategories, tManufacturers, tModels, tHardware>>

caches == <<categoryCache, manufacturerCache, modelCache>>

maps == <<assetsBySerial, modelsByName, manufacturersByName>>

locals == <<manufacturer, model, ret, category>>

history == <<writes, status, resolved>>

PreloadFails_GoesOn ==
    /\ pc' = "manufacturer"
    /\ i' = 1
    /\ UNCHANGED <<devices, dialect, target, maps, locals, history>>

\* The catch of syncDevices around the preload: the run throws.
PreloadFails ==
    /\ pc' = "thrown"
    /\ UNCHANGED <<devices, dialect, target, caches, maps, i, locals, history>>

\* getCategories, called by syncDevices.
GetCategories ==
    /\ pc = "categories"
    /\ \E out \in ReadOutcomes :
          /\ Called("GET categories", out)
          /\ IF out = "ok"
             THEN /\ categoryCache' = ByLowerName(tCategories)
                  /\ pc' = "manufacturers"
                  /\ UNCHANGED <<devices, dialect, target, manufacturerCache, modelCache,
                                 maps, i, locals, history>>
             ELSE PreloadFails /\ UNCHANGED caches
    /\ UNCHANGED outside

GetManufacturers ==
    /\ pc = "manufacturers"
    /\ \E out \in ReadOutcomes :
          /\ Called("GET manufacturers", out)
          /\ IF out = "ok"
             THEN /\ manufacturerCache' = ByLowerName(tManufacturers)
                  /\ pc' = "models"
                  /\ UNCHANGED <<devices, dialect, target, categoryCache, modelCache,
                                 maps, i, locals, history>>
             ELSE PreloadFails /\ UNCHANGED caches
    /\ UNCHANGED outside

ModelViews(rows, categories) == [k \in DOMAIN rows |-> ModelView(rows[k], categories)]

GetModels_Lazy ==
    /\ pc = "models"
    /\ pc' = "hardware"
    /\ UNCHANGED <<devices, dialect, target, caches, maps, i, locals, calls, history>>
    /\ UNCHANGED outside

GetModels ==
    /\ pc = "models"
    /\ \E out \in ReadOutcomes :
          /\ Called("GET models", out)
          /\ IF out = "ok"
             THEN /\ modelCache' = ByLowerName(ModelViews(tModels, tCategories))
                  /\ pc' = "hardware"
                  /\ UNCHANGED <<devices, dialect, target, categoryCache,
                                 manufacturerCache, maps, i, locals, history>>
             ELSE PreloadFails /\ UNCHANGED caches
    /\ UNCHANGED outside

AfterDevice_Backwards(k) ==
    CASE k = 0 -> [pc |-> "manufacturer", i |-> Len(devices)]
      [] k > 1 -> [pc |-> "manufacturer", i |-> k - 1]
      [] OTHER -> [pc |-> "done", i |-> k]

\* Where the run goes once device k is over.
AfterDevice(k) ==
    IF k < Len(devices) THEN [pc |-> "manufacturer", i |-> k + 1]
                        ELSE [pc |-> "done", i |-> k]

\* The bulk asset listing and the three lookup maps; then the first device.
GetHardware ==
    /\ pc = "hardware"
    /\ \E out \in ReadOutcomes :
          /\ Called("GET hardware", out)
          /\ IF out = "ok"
             THEN /\ assetsBySerial' = AssetsBySerial(tHardware)
                  /\ modelsByName' = modelCache
                  /\ manufacturersByName' = manufacturerCache
                  /\ pc' = AfterDevice(0).pc
                  /\ i' = AfterDevice(0).i
                  /\ UNCHANGED <<devices, dialect, target, caches, locals, history>>
             ELSE PreloadFails /\ UNCHANGED caches
    /\ UNCHANGED outside

----------------------------------------------------------------------------
(* syncDeviceWithCache, one device *)

OnDeviceError_Rethrow(k) == [pc |-> "thrown", i |-> k]

\* The catch around syncDeviceWithCache in the loop: log, go on.
OnDeviceError(k) == AfterDevice(k)

ResetLocals ==
    /\ manufacturer' = NoRef /\ model' = NoModel /\ ret' = "none" /\ category' = NoRef

\* syncDeviceWithCache throws for the current device.
DeviceFails ==
    /\ status' = [status EXCEPT ![i] = "failed"]
    /\ pc' = OnDeviceError(i).pc
    /\ i' = OnDeviceError(i).i
    /\ ResetLocals

\* syncDeviceWithCache returns for the current device.
DeviceSynced ==
    /\ status' = [status EXCEPT ![i] = "synced"]
    /\ pc' = AfterDevice(i).pc
    /\ i' = AfterDevice(i).i
    /\ ResetLocals

\* response.data
DataAsRecord(data, blank) == IF data.enveloped THEN blank ELSE data.record

\* response.data.payload || response.data
PayloadOrData(data, blank) ==
    IF data.enveloped /\ data.hasPayload THEN data.record ELSE DataAsRecord(data, blank)

ResolveManufacturer_NoInsert ==
    /\ pc = "manufacturer"
    /\ LET name == devices[i].system.manufacturer
           key == ToLowerCase(name)
       IN IF key \in DOMAIN manufacturersByName
          THEN /\ manufacturer' = manufacturersByName[key]
               /\ pc' = "model"
               /\ UNCHANGED <<devices, dialect, target, caches, maps, i, model, ret,
                              category, calls, history>>
          ELSE \E out \in WriteOutcomes :
                  /\ Called("POST manufacturers", out)
                  /\ IF out = "err"
                     THEN /\ DeviceFails
                          /\ UNCHANGED <<devices, dialect, target, caches, maps, writes,
                                         resolved>>
                     ELSE LET row == Ref(Len(tManufacturers) + 1, name)
                              newManufacturer == DataAsRecord(Reply(out, row, dialect), NoRef)
                          IN /\ tManufacturers' = IF out = "ok" THEN Append(tManufacturers, row)
                                                               ELSE tManufacturers
                             /\ manufacturer' = newManufacturer
                             /\ pc' = "model"
                             /\ UNCHANGED <<devices, dialect, tCategories, tModels, tHardware,
                                            caches, maps, i, model, ret, category, history>>
    /\ UNCHANGED outside

\* Manufacturer from the map, or createManufacturer.
ResolveManufacturer ==
    /\ pc = "manufacturer"
    /\ LET name == devices[i].system.manufacturer
           key == ToLowerCase(name)
       IN IF key \in DOMAIN manufacturersByName
          THEN /\ manufacturer' = manufacturersByName[key]
               /\ pc' = "model"
               /\ UNCHANGED <<devices, dialect, target, caches, maps, i, model, ret,
                              category, calls, history>>
          ELSE \E out \in WriteOutcomes :
                  /\ Called("POST manufacturers", out)
                  /\ IF out = "err"
                     THEN /\ DeviceFails
                          /\ UNCHANGED <<devices, dialect, target, caches, maps, writes,
                                         resolved>>
                     ELSE LET row == Ref(Len(tManufacturers) + 1, name)
                              newManufacturer == DataAsRecord(Reply(out, row, dialect), NoRef)
                          IN /\ tManufacturers' = IF out = "ok" THEN Append(tManufacturers, row)
                                                               ELSE tManufacturers
                             /\ manufacturerCache' = MapSet(manufacturerCache, key, newManufacturer)
                             /\ manufacturersByName' = MapSet(manufacturersByName, key, newManufacturer)
                             /\ manufacturer' = newManufacturer
                             /\ pc' = "model"
                             /\ UNCHANGED <<devices, dialect, tCategories, tModels, tHardware,
                                            categoryCache, modelCache, assetsBySerial,
                                            modelsByName, i, model, ret, category, history>>
    /\ UNCHANGED outside

LookupModel_NoCache ==
    /\ pc = "model"
    /\ model' = model
    /\ pc' = "search"
    /\ UNCHANGED <<devices, dialect, target, caches, maps, i, manufacturer, ret, category,
                   calls, history>>
    /\ UNCHANGED outside

\* modelsByName.get(modelKey) and the defensive check on what it holds.
LookupModel ==
    /\ pc = "model"
    /\ LET key == ToLowerCase(devices[i].system.model)
       IN IF key \in DOMAIN modelsByName
          THEN /\ model' = modelsByName[key]
               /\ pc' = IF modelsByName[key].manufacturer.id = 0 THEN "refetch" ELSE "drift"
          ELSE /\ model' = model
               /\ pc' = "search"
    /\ UNCHANGED <<devices, dialect, target, caches, maps, i, manufacturer, ret, category,
                   calls, history>>
    /\ UNCHANGED outside

\* GET models/<id> for a cached model without manufacturer info.
FetchModel ==
    /\ pc = "refetch"
    /\ \E out \in (IF HasId(tModels, model.id) THEN ReadOutcomes ELSE {"err"}) :
          /\ Called("GET models/id", out)
          /\ IF out = "ok"
             THEN LET fresh == ModelView(RowById(tModels, model.id), tCategories)
                  IN /\ model' = fresh
                     /\ modelsByName' = MapSet(modelsByName,
                                            ToLowerCase(devices[i].system.model), fresh)
                     /\ pc' = "drift"
                     /\ UNCHANGED <<devices, dialect, target, caches, assetsBySerial,
                                    manufacturersByName, i, manufacturer, ret, category,
                                    history>>
             ELSE /\ DeviceFails
                  /\ UNCHANGED <<devices, dialect, target, caches, maps, writes, resolved>>
    /\ UNCHANGED outside

\* "If model exists but needs updates", for a cached and for a found model.
CheckDrift ==
    /\ pc = "drift"
    /\ IF NeedsUpdate(model, manufacturer, devices[i].nodeClass)
       THEN pc' = "category" /\ ret' = "put" /\ UNCHANGED resolved
       ELSE pc' = "asset" /\ ret' = ret /\ resolved' = resolved \cup {i}
    /\ UNCHANGED <<devices, dialect, target, caches, maps, i, manufacturer, model,
                   category, calls, writes, status>>
    /\ UNCHANGED outside

\* GET models?search=<name>; a model found is cached, one not found is created.
SearchModel ==
    /\ pc = "search"
    /\ \E out \in ReadOutcomes :
          /\ Called("GET models?search", out)
          /\ LET key == ToLowerCase(devices[i].system.model)
                 rows == ModelViews(tModels, tCategories)
                 hits == { k \in DOMAIN rows : ToLowerCase(rows[k].name) = key }
                 existingModel == rows[CHOOSE k \in hits : \A h \in hits : k <= h]
             IN CASE out = "ok" /\ hits # {} ->
                       /\ model' = existingModel
                       /\ modelsByName' = MapSet(modelsByName, key, existingModel)
                       /\ pc' = "drift"
                       /\ UNCHANGED <<devices, dialect, target, caches, assetsBySerial,
                                      manufacturersByName, i, manufacturer, ret, category,
                                      history>>
                  [] out = "ok" /\ hits = {} /\ manufacturer.id # 0 ->
                       /\ pc' = "category"
                       /\ ret' = "post"
                       /\ UNCHANGED <<devices, dialect, target, caches, maps, i,
                                      manufacturer, model, category, history>>
                  [] OTHER ->
                       \* the search failed, or createModel has no manufacturer_id
                       /\ DeviceFails
                       /\ UNCHANGED <<devices, dialect, target, caches, maps, writes,
                                      resolved>>
    /\ UNCHANGED outside

\* getOrCreateAssetCategory: the name for the nodeClass, then the cache.
ResolveCategory ==
    /\ pc = "category"
    /\ LET key == ToLowerCase(CategoryNameFor(devices[i].nodeClass))
       IN IF key \in DOMAIN categoryCache
          THEN category' = categoryCache[key] /\ pc' = ret
          ELSE category' = category /\ pc' = "catList"
    /\ UNCHANGED <<devices, dialect, target, caches, maps, i, manufacturer, model, ret,
                   calls, history>>
    /\ UNCHANGED outside

RefreshCategories_NoLook ==
    /\ pc = "catList"
    /\ \E out \in ReadOutcomes :
          /\ Called("GET categories", out)
          /\ IF out = "ok"
             THEN /\ categoryCache' = ByLowerName(tCategories)
                  /\ category' = category
                  /\ pc' = "catCreate"
                  /\ UNCHANGED <<devices, dialect, target, manufacturerCache, modelCache,
                                 maps, i, manufacturer, model, ret, history>>
             ELSE /\ DeviceFails
                  /\ UNCHANGED <<devices, dialect, target, caches, maps, writes, resolved>>
    /\ UNCHANGED outside

\* getOrCreateAssetCategory after a miss: list the categories again and look.
RefreshCategories ==
    /\ pc = "catList"
    /\ \E out \in ReadOutcomes :
          /\ Called("GET categories", out)
          /\ IF out = "ok"
             THEN LET fresh == ByLowerName(tCategories)
                      key == ToLowerCase(CategoryNameFor(devices[i].nodeClass))
                  IN /\ categoryCache' = fresh
                     /\ IF key \in DOMAIN fresh
                        THEN category' = fresh[key] /\ pc' = ret
                        ELSE category' = category /\ pc' = "catCreate"
                     /\ UNCHANGED <<devices, dialect, target, manufacturerCache, modelCache,
                                    maps, i, manufacturer, model, ret, history>>
             ELSE /\ DeviceFails
                  /\ UNCHANGED <<devices, dialect, target, caches, maps, writes, resolved>>
    /\ UNCHANGED outside

\* createCategory: a body of status error is thrown.
CreateCategory ==
    /\ pc = "catCreate"
    /\ \E out \in WriteOutcomes :
          /\ Called("POST categories", out)
          /\ IF out = "ok"
             THEN LET row == Ref(Len(tCategories) + 1, CategoryNameFor(devices[i].nodeClass))
                      newCategory == PayloadOrData(Reply(out, row, dialect), NoRef)
                  IN /\ tCategories' = Append(tCategories, row)
                     /\ categoryCache' = MapSet(categoryCache,
                                             ToLowerCase(newCategory.name), newCategory)
                     /\ category' = newCategory
                     /\ pc' = ret
                     /\ UNCHANGED <<devices, dialect, tManufacturers, tModels, tHardware,
                                    manufacturerCache, modelCache, maps, i, manufacturer,
                                    model, ret, history>>
             ELSE /\ DeviceFails
                  /\ UNCHANGED <<devices, dialect, target, caches, maps, writes, resolved>>
    /\ UNCHANGED outside

\* The target's model after a PUT models/<id>; an undefined manufacturer_id
\* is not in the JSON body.
UpdatedModel(r, name, manufacturer_id, category_id) ==
    ModelRow(r.id, name, IF manufacturer_id = 0 THEN r.manufacturer_id ELSE manufacturer_id,
             category_id)

ReplaceById(rows, id, r) == [k \in DOMAIN rows |-> IF rows[k].id = id THEN r ELSE rows[k]]

\* PUT models/<id> with the device's manufacturer and category.
UpdateModel ==
    /\ pc = "put"
    /\ \E out \in (IF HasId(tModels, model.id) THEN WriteOutcomes ELSE {"rejected", "err"}) :
          /\ Called("PUT models/id", out)
          /\ IF out = "err"
             THEN /\ DeviceFails
                  /\ UNCHANGED <<devices, dialect, target, caches, maps, writes, resolved>>
             ELSE LET name == devices[i].system.model
                      row == IF out = "ok"
                             THEN UpdatedModel(RowById(tModels, model.id), name,
                                               manufacturer.id, category.id)
                             ELSE ModelRow(0, <<>>, 0, 0)
                      updated == PayloadOrData(
                                    Reply(out, ModelPayload(row, tCategories, dialect), dialect),
                                    NoModel)
                  IN /\ tModels' = IF out = "ok" THEN ReplaceById(tModels, model.id, row)
                                                 ELSE tModels
                     /\ model' = updated
                     /\ modelsByName' = MapSet(modelsByName, ToLowerCase(name), updated)
                     /\ pc' = "asset"
                     /\ resolved' = resolved \cup {i}
                     /\ UNCHANGED <<devices, dialect, tCategories, tManufacturers, tHardware,
                                    caches, assetsBySerial, manufacturersByName, i,
                                    manufacturer, ret, category, writes, status>>
    /\ UNCHANGED outside

\* createModel after its category: POST models; a body of status error is thrown.
CreateModel ==
    /\ pc = "post"
    /\ \E out \in WriteOutcomes :
          /\ Called("POST models", out)
          /\ IF out = "ok"
             THEN LET name == devices[i].system.model
                      row == ModelRow(Len(tModels) + 1, name, manufacturer.id, category.id)
                      newModel == PayloadOrData(
                                     Reply(out, ModelPayload(row, tCategories, dialect), dialect),
                                     NoModel)
                  IN /\ tModels' = Append(tModels, row)
                     /\ modelCache' = MapSet(modelCache, ToLowerCase(name), newModel)
                     /\ modelsByName' = MapSet(modelsByName, ToLowerCase(name), newModel)
                     /\ model' = newModel
                     /\ pc' = "asset"
                     /\ resolved' = resolved \cup {i}
                     /\ UNCHANGED <<devices, dialect, tCategories, tManufacturers, tHardware,
                                    categoryCache, manufacturerCache, assetsBySerial,
                                    manufacturersByName, i, manufacturer, ret, category,
                                    writes, status>>
             ELSE /\ DeviceFails
                  /\ UNCHANGED <<devices, dialect, target, caches, maps, writes, resolved>>
    /\ UNCHANGED outside

\* What the asset step does for a device, given the asset map.
PlanAsset_AlwaysCreate(device, bySerial, m, man) ==
    [kind |-> "Create", id |-> 0, payload |-> createAssetData(device, m, man)]

PlanAsset(device, bySerial, m, man) ==
    LET key == ToLowerCase(device.system.serialNumber)
    IN IF key \in DOMAIN bySerial
       THEN LET changedFields == getChangedFields(device, bySerial[key], m, man)
            IN IF DOMAIN changedFields # {}
               THEN [kind |-> "Patch", id |-> bySerial[key].id, payload |-> changedFields,
                     existing |-> bySerial[key]]
               ELSE [kind |-> "None", id |-> bySerial[key].id]
       ELSE [kind |-> "Create", id |-> 0, payload |-> createAssetData(device, m, man)]

\* The asset step: PATCH hardware/<id> of the asset found by serial, or POST
\* hardware.  The body of the answer is not looked at.
SyncAsset ==
    /\ pc = "asset"
    /\ LET plan == PlanAsset(devices[i], assetsBySerial, model, manufacturer)
       IN IF plan.kind = "None"
          THEN /\ DeviceSynced
               /\ UNCHANGED <<devices, dialect, target, caches, maps, calls, writes, resolved>>
          ELSE \E out \in (IF plan.kind = "Create" \/ HasId(tHardware, plan.id)
                           THEN WriteOutcomes ELSE {"rejected", "err"}) :
                  /\ Called(IF plan.kind = "Patch" THEN "PATCH hardware/id" ELSE "POST hardware",
                            out)
                  /\ writes' = Append(writes,
                        [dev |-> i, out |-> out, model_id |-> model.id,
                         manufacturer_id |-> manufacturer.id,
                         created |-> IF out = "ok" /\ plan.kind = "Create"
                                     THEN Len(tHardware) + 1 ELSE 0] @@ plan)
                  /\ tHardware' =
                        CASE out = "ok" /\ plan.kind = "Create" ->
                               Append(tHardware, CreatedAsset(Len(tHardware) + 1, plan.payload))
                          [] out = "ok" /\ plan.kind = "Patch" ->
                               ReplaceById(tHardware, plan.id,
                                   PatchedAsset(RowById(tHardware, plan.id), plan.payload))
                          [] OTHER -> tHardware
                  /\ IF out = "err" THEN DeviceFails ELSE DeviceSynced
                  /\ UNCHANGED <<devices, dialect, tCategories, tManufacturers, tModels,
                                 caches, maps, resolved>>
    /\ UNCHANGED outside

Next ==
    \/ GetCategories
    \/ GetManufacturers
    \/ GetModels
    \/ GetHardware
    \/ ResolveManufacturer
    \/ LookupModel
    \/ FetchModel
    \/ CheckDrift
    \/ SearchModel
    \/ ResolveCategory
    \/ RefreshCategories
    \/ CreateCategory
    \/ UpdateModel
    \/ CreateModel
    \/ SyncAsset

Spec == Init /\ [][Next]_vars

\* Targets whose models predate what the devices report: a model whose
\* manufacturer and category are another's and whose reported manufacturer
\* the target does not have, and a target with manufacturers and no model.
StalePool ==
    { [categories |-> <<Ref(1, sWindowsWorkstations)>>,
       manufacturers |-> <<Ref(1, sDell)>>,
       models |-> <<ModelRow(1, sUnknown, 1, 1)>>,
       hardware |-> <<AssetRow(1, sNAS1, sUnknown, 1, 1, sUnknown, 0, 0)>>],
      [categories |-> <<Ref(1, sWindowsWorkstations)>>,
       manufacturers |-> <<Ref(1, sDell), Ref(2, sUnknown)>>,
       models |-> <<>>,
       hardware |-> <<>>] }

StaleInit ==
    /\ devices \in DeviceLists
    /\ dialect \in Dialects
    /\ \E t \in StalePool :
          /\ tCategories = t.categories
          /\ tManufacturers = t.manufacturers
          /\ tModels = t.models
          /\ tHardware = t.hardware
    /\ categoryCache = EmptyMap
    /\ manufacturerCache = EmptyMap
    /\ modelCache = EmptyMap
    /\ assetsBySerial = EmptyMap
    /\ modelsByName = EmptyMap
    /\ manufacturersByName = EmptyMap
    /\ pc = "categories"
    /\ i = 0
    /\ manufacturer = NoRef
    /\ model = NoModel
    /\ ret = "none"
    /\ category = NoRef
    /\ calls = <<>>
    /\ writes = <<>>
    /\ status = [k \in DOMAIN devices |-> "pending"]
    /\ resolved = {}
    /\ GateIdle
    /\ HostIdle
    /\ FlightIdle
    /\ NinjaIdle

StaleSpec == StaleInit /\ [][Next]_vars

----------------------------------------------------------------------------
(* rateLimitedRequest, with its clock *)

\* Date.now() when the service is constructed; the time the caller lets pass
\* before a call; the time a request takes.  A timer fires when its delay is
\* over, the earliest that setTimeout allows.
StartTimes == {100000}

ThinkTimes == {0, 2500}

Durations == {300, 1200}

GateOutcomes == {"ok", "429", "err"}

NoRun ==
    /\ devices = <<>> /\ dialect = "bare"
    /\ tCategories = <<>> /\ tManufacturers = <<>> /\ tModels = <<>> /\ tHardware = <<>>
    /\ categoryCache = EmptyMap /\ manufacturerCache = EmptyMap /\ modelCache = EmptyMap
    /\ assetsBySerial = EmptyMap /\ modelsByName = EmptyMap
    /\ manufacturersByName = EmptyMap
    /\ pc = "gate" /\ i = 0 /\ manufacturer = NoRef /\ model = NoModel /\ ret = "none"
    /\ category = NoRef /\ calls = <<>> /\ writes = <<>> /\ status = <<>> /\ resolved = {}

GateInit ==
    /\ NoRun
    /\ HostIdle
    /\ FlightIdle
    /\ NinjaIdle
    /\ now \in StartTimes
    /\ lastRequestTime = 0
    /\ gpc = "idle" /\ attempts = 0 /\ firstOutcome = "none" /\ timer = 0
    /\ firstDoneAt = 0
    /\ gateCalls = 0 /\ dispatches = <<>> /\ outcomes = <<>> /\ gateResult = "none"

\* How long the call started at t waits before it dispatches.
DelayNeeded(t) ==
    IF t - lastRequestTime < requestDelay THEN requestDelay - (t - lastRequestTime) ELSE 0

\* A call enters: it dispatches at once or sets the timer of its delay.
GateEnter ==
    /\ gpc = "idle"
    /\ gateCalls < MaxCalls
    /\ \E think \in ThinkTimes :
          LET t == now + think
          IN /\ now' = t
             /\ IF DelayNeeded(t) > 0
                THEN /\ gpc' = "delay"
                     /\ timer' = DelayNeeded(t)
                     /\ attempts' = 0
                     /\ UNCHANGED dispatches
                ELSE /\ gpc' = "first"
                     /\ timer' = 0
                     /\ dispatches' = Append(dispatches, t)
                     /\ attempts' = 1
    /\ gateCalls' = gateCalls + 1
    /\ firstOutcome' = "none"
    /\ firstDoneAt' = 0
    /\ gateResult' = "pending"
    /\ UNCHANGED <<lastRequestTime, outcomes>>
    /\ UNCHANGED caller

GateDelayOver_Stamps ==
    /\ gpc = "delay"
    /\ now' = now + timer
    /\ lastRequestTime' = now + timer
    /\ dispatches' = Append(dispatches, now + timer)
    /\ attempts' = 1
    /\ gpc' = "first"
    /\ timer' = 0
    /\ UNCHANGED <<firstOutcome, firstDoneAt, gateCalls, outcomes, gateResult>>
    /\ UNCHANGED caller

\* The delay is over: the first dispatch.
GateDelayOver ==
    /\ gpc = "delay"
    /\ now' = now + timer
    /\ dispatches' = Append(dispatches, now + timer)
    /\ attempts' = 1
    /\ gpc' = "first"
    /\ timer' = 0
    /\ UNCHANGED <<lastRequestTime, firstOutcome, firstDoneAt, gateCalls, outcomes,
                   gateResult>>
    /\ UNCHANGED caller

RetryOn_AnyError(out) == out # "ok"

\* error.response?.status === 429
RetryOn(out) == out = "429"

\* this.requestDelay * 2
BackoffDelay == requestDelay * 2

\* The first attempt ends: a result, a 429 or another error.
GateFirstDone ==
    /\ gpc = "first"
    /\ \E dur \in Durations, out \in GateOutcomes :
          /\ now' = now + dur
          /\ outcomes' = Append(outcomes, out)
          /\ firstOutcome' = out
          /\ firstDoneAt' = now + dur
          /\ CASE out = "ok" ->
                    /\ lastRequestTime' = now + dur
                    /\ gateResult' = "returned"
                    /\ gpc' = "idle"
                    /\ timer' = 0
               [] RetryOn(out) /\ out # "ok" ->
                    /\ gpc' = "backoff"
                    /\ timer' = BackoffDelay
                    /\ UNCHANGED <<lastRequestTime, gateResult>>
               [] OTHER ->
                    /\ gateResult' = "thrown"
                    /\ gpc' = "idle"
                    /\ timer' = 0
                    /\ UNCHANGED lastRequestTime
    /\ UNCHANGED <<attempts, gateCalls, dispatches>>
    /\ UNCHANGED caller

\* The backoff is over: the retry is dispatched.
GateBackoffOver ==
    /\ gpc = "backoff"
    /\ now' = now + timer
    /\ dispatches' = Append(dispatches, now + timer)
    /\ attempts' = attempts + 1
    /\ gpc' = "second"
    /\ timer' = 0
    /\ UNCHANGED <<lastRequestTime, firstOutcome, firstDoneAt, gateCalls, outcomes,
                   gateResult>>
    /\ UNCHANGED caller

\* return await requestFn(): the retry's result or error is the call's.
GateSecondDone ==
    /\ gpc = "second"
    /\ \E dur \in Durations, out \in GateOutcomes :
          /\ now' = now + dur
          /\ outcomes' = Append(outcomes, out)
          /\ gateResult' = IF out = "ok" THEN "returned" ELSE "thrown"
    /\ gpc' = "idle"
    /\ UNCHANGED <<lastRequestTime, attempts, firstOutcome, timer, firstDoneAt,
                   gateCalls, dispatches>>
    /\ UNCHANGED caller

GateNext ==
    \/ GateEnter
    \/ GateDelayOver
    \/ GateFirstDone
    \/ GateBackoffOver
    \/ GateSecondDone

GateSpec == GateInit /\ [][GateNext]_vars

----------------------------------------------------------------------------
(* A run against a target that another client writes to as well *)

\* The names the nodeClass switch can give.
CategoryNames == {sWindowsServers, sWindowsWorkstations, sVMwareHosts, sOtherHardware}

LowerNames(rows) == { ToLowerCase(rows[k].name) : k \in DOMAIN rows }

\* Another client creates the category the run is about to look for, after
\* the run's last listing of the categories and before its next one.
OutOfBandCategory ==
    /\ pc = "catList"
    /\ \E name \in CategoryNames :
          /\ name = CategoryNameFor(devices[i].nodeClass)
          /\ ToLowerCase(name) \notin LowerNames(tCategories)
          /\ tCategories' = Append(tCategories, Ref(Len(tCategories) + 1, name))
    /\ UNCHANGED <<devices, dialect, tManufacturers, tModels, tHardware, caches, maps,
                   pc, i, locals, calls, history>>
    /\ UNCHANGED outside

\* Another client creates the model a device is about to be searched for.
OutOfBandModel ==
    /\ pc = "search"
    /\ ToLowerCase(devices[i].system.model) \notin LowerNames(tModels)
    /\ tCategories # <<>>
    /\ \E m \in DOMAIN tManufacturers :
          tModels' = Append(tModels, ModelRow(Len(tModels) + 1, devices[i].system.model,
                                              tManufacturers[m].id, tCategories[1].id))
    /\ UNCHANGED <<devices, dialect, tCategories, tManufacturers, tHardware, caches, maps,
                   pc, i, locals, calls, history>>
    /\ UNCHANGED outside

OpenNext ==
    \/ Next
    \/ OutOfBandCategory

OpenSpec == Init /\ [][OpenNext]_vars

OpenModelNext ==
    \/ Next
    \/ OutOfBandModel

OpenModelSpec == Init /\ [][OpenModelNext]_vars

----------------------------------------------------------------------------
(* The requests of a run as promises: handed to the gate, settled, awaited *)

\* The requests SnipeService makes in a run.
CallSites ==
    {"GET categories", "GET manufacturers", "GET models", "GET hardware",
     "POST manufacturers", "GET models/id", "GET models?search", "POST categories",
     "PUT models/id", "POST models", "PATCH hardware/id", "POST hardware"}

\* How each of them is made: this.rateLimitedRequest(() => this.client...).
Via == [op \in CallSites |-> "rateLimitedRequest"]

\* The request the run makes next where it stands, "none" if its next step
\* makes none.
NextOp ==
    CASE pc = "categories" -> "GET categories"
      [] pc = "manufacturers" -> "GET manufacturers"
      [] pc = "models" -> "GET models"
      [] pc = "hardware" -> "GET hardware"
      [] pc = "manufacturer" ->
            IF ToLowerCase(devices[i].system.manufacturer) \in DOMAIN manufacturersByName
            THEN "none" ELSE "POST manufacturers"
      [] pc = "refetch" -> "GET models/id"
      [] pc = "search" -> "GET models?search"
      [] pc = "catList" -> "GET categories"
      [] pc = "catCreate" -> "POST categories"
      [] pc = "put" -> "PUT models/id"
      [] pc = "post" -> "POST models"
      [] pc = "asset" ->
            LET plan == PlanAsset(devices[i], assetsBySerial, model, manufacturer)
            IN CASE plan.kind = "Patch" -> "PATCH hardware/id"
                 [] plan.kind = "Create" -> "POST hardware"
                 [] OTHER -> "none"
      [] OTHER -> "none"

Awaited_FireAndForget == TRUE

\* Every call of rateLimitedRequest is awaited: the run is not past a call
\* whose result it has not taken.
Awaited == Len(issued) = Len(calls)

\* The run calls rateLimitedRequest.
Issue ==
    /\ hpc = "sync"
    /\ NextOp # "none"
    /\ Awaited
    /\ issued' = Append(issued, [dev |-> i, op |-> NextOp, via |-> Via[NextOp],
                                 after |-> settled])
    /\ UNCHANGED <<settled, syncVars, gateVars, hostVars, ninjaVars>>

\* The promise of a call settles: rateLimitedRequest returns or throws.
Settle ==
    /\ settled < Len(issued)
    /\ settled' = settled + 1
    /\ UNCHANGED <<issued, syncVars, gateVars, hostVars, ninjaVars>>

\* The run goes on: after a step without request, or with what the call it
\* awaits has settled to.
Resume ==
    /\ hpc = "sync"
    /\ IF NextOp = "none"
       THEN Len(issued) = Len(calls)
       ELSE Len(issued) > Len(calls) /\ settled > Len(calls)
    /\ Next

FlightNext ==
    \/ Issue
    \/ Settle
    \/ Resume

FlightSpec == Init /\ [][FlightNext]_vars

----------------------------------------------------------------------------
(* The getDevices handler: validate, construct, list, process, sync, report *)

\* process.env as the function finds it: all options set, or some absent.
Environments == { e \in SUBSET Options : Cardinality(Options \ e) <= MaxAbsent }

HandlerInit ==
    /\ RunInit
    /\ GateIdle
    /\ FlightIdle
    /\ NinjaIdle
    /\ env \in Environments
    /\ hpc = "validate"
    /\ netCalls = <<>>
    /\ reported = -1

\* The options the if of validateEnvironment tests.
RequiredVars ==
    {"SnipeBaseURL", "SnipeAPIKey", "NinjaBaseUrl", "NinjaClientID", "NinjaClientSecret"}

\* The catch of the handler: log and throw again.
HandlerThrows == hpc' = "threw" /\ UNCHANGED reported

validateEnvironment ==
    /\ hpc = "validate"
    /\ IF RequiredVars \subseteq env THEN hpc' = "ninja" /\ UNCHANGED reported
                                     ELSE HandlerThrows
    /\ UNCHANGED <<env, netCalls, syncVars, gateVars, flightVars, ninjaVars>>

\* new NinjaService(NinjaBaseUrl, NinjaClientID, NinjaClientSecret)
NewNinjaService ==
    /\ hpc = "ninja"
    /\ IF {"NinjaBaseUrl", "NinjaClientID", "NinjaClientSecret"} \subseteq env
       THEN hpc' = "snipe" /\ UNCHANGED reported
       ELSE HandlerThrows
    /\ UNCHANGED <<env, netCalls, syncVars, gateVars, flightVars, ninjaVars>>

\* new SnipeService(SnipeBaseURL, SnipeAPIKey)
NewSnipeService ==
    /\ hpc = "snipe"
    /\ IF {"SnipeBaseURL", "SnipeAPIKey"} \subseteq env
       THEN hpc' = "token" /\ UNCHANGED reported
       ELSE HandlerThrows
    /\ UNCHANGED <<env, netCalls, syncVars, gateVars, flightVars, ninjaVars>>

\* new URL(process.env[option], this.baseUrl): an option that is not set
\* reads undefined, which the URL takes as the relative path "undefined".
EndpointPath(option) == IF option \in env THEN option ELSE "undefined"

\* How the directory answers a request: it has nothing at /undefined.
DirectoryOutcomes(path) == IF path = "undefined" THEN {"err"} ELSE {"ok", "err"}

DirectoryCall_GoesOn(op, option, then) ==
    \E out \in DirectoryOutcomes(EndpointPath(option)) :
        /\ netCalls' = Append(netCalls, [op |-> op, path |-> EndpointPath(option),
                                         out |-> out])
        /\ hpc' = then
        /\ UNCHANGED reported

\* A request to the directory and where the handler stands after it.
DirectoryCall(op, option, then) ==
    \E out \in DirectoryOutcomes(EndpointPath(option)) :
        /\ netCalls' = Append(netCalls, [op |-> op, path |-> EndpointPath(option),
                                         out |-> out])
        /\ IF out = "ok" THEN hpc' = then /\ UNCHANGED reported ELSE HandlerThrows

\* NinjaService.getToken, called by getDevices.
getToken ==
    /\ hpc = "token"
    /\ DirectoryCall("POST token", "NinjaAuthEndpoint", "listing")
    /\ UNCHANGED <<env, syncVars, gateVars, flightVars, ninjaVars>>

\* NinjaService.getDevices after the token: the device listing.
getDevices ==
    /\ hpc = "listing"
    /\ DirectoryCall("GET devices", "NinjaDeviceDetailEndpoint", "process")
    /\ UNCHANGED <<env, syncVars, gateVars, flightVars, ninjaVars>>

\* processDevices gives the list handed to syncDevices.
HandlerProcesses ==
    /\ hpc = "process"
    /\ hpc' = "sync"
    /\ UNCHANGED <<env, netCalls, reported, syncVars, gateVars, flightVars, ninjaVars>>

\* await snipeService.syncDevices(processedDevices, context)
HandlerSyncs ==
    /\ hpc = "sync"
    /\ Next

\* processedDevices.length
Reported == Len(devices)

\* syncDevices returned: the handler returns its count.
HandlerReturns ==
    /\ hpc = "sync"
    /\ pc = "done"
    /\ hpc' = "returned"
    /\ reported' = Reported
    /\ UNCHANGED <<env, netCalls, syncVars, gateVars, flightVars, ninjaVars>>

\* syncDevices threw: the handler's catch.
HandlerCatches ==
    /\ hpc = "sync"
    /\ pc = "thrown"
    /\ HandlerThrows
    /\ UNCHANGED <<env, netCalls, syncVars, gateVars, flightVars, ninjaVars>>

HandlerNext ==
    \/ validateEnvironment
    \/ NewNinjaService
    \/ NewSnipeService
    \/ getToken
    \/ getDevices
    \/ HandlerProcesses
    \/ HandlerSyncs
    \/ HandlerReturns
    \/ HandlerCatches

HandlerSpec == HandlerInit /\ [][HandlerNext]_vars

----------------------------------------------------------------------------
(* NinjaService: from the directory's listing to the devices handed to sync *)

\* A string that is undefined (no text is made of it), and -1 for a number
\* that is undefined.  An absent object is the empty sequence, a present one
\* the sequence of its one record.
Undefined == <<"undefined">>

System(name, man, mod, bios, serial, domain, role, cpus, mem, vm, chassis) ==
    [name |-> name, manufacturer |-> man, model |-> mod, biosSerialNumber |-> bios,
     serialNumber |-> serial, domain |-> domain, domainRole |-> role,
     numberOfProcessors |-> cpus, totalPhysicalMemory |-> mem, virtualMachine |-> vm,
     chassisType |-> chassis]

\* A device as the directory lists it: the system block of an agent, and
\* the fields a VMware host has at its top level.
RawDevice(id, systemName, nodeClass, system, host) ==
    [id |-> id, systemName |-> systemName, nodeClass |-> nodeClass, system |-> system,
     name |-> host.name, vendor |-> host.manufacturer, model |-> host.model,
     biosSerialNumber |-> host.biosSerialNumber, serialNumber |-> host.serialNumber,
     domain |-> host.domain, domainRole |-> host.domainRole,
     numberOfProcessors |-> host.numberOfProcessors,
     totalPhysicalMemory |-> host.totalPhysicalMemory, chassisType |-> host.chassisType]

NoHostFields ==
    System(Undefined, Undefined, Undefined, Undefined, Undefined, Undefined, Undefined,
           -1, -1, FALSE, Undefined)

sESX1 == <<"E","S","X","1">>
sESX2 == <<"E","S","X","2">>
sVM1 == <<"V","M","1">>
sProbe == <<"P","r","o","b","e">>
sDesktop == <<"D","e","s","k","t","o","p">>

RawPool ==
    { RawDevice(1, sPC1, "WINDOWS_WORKSTATION",
                <<System(sPC1, sDell, sOptiPlex, sSN1, sSN1, sCorp, sUnknown, 4, GiB, FALSE,
                         sDesktop)>>, NoHostFields),
      RawDevice(2, sPC2, "WINDOWS_SERVER",
                <<System(sPC2, sHP, Undefined, <<>>, Undefined, sCorp, sUnknown, -1, 0, TRUE,
                         Undefined)>>, NoHostFields),
      RawDevice(3, sNAS1, "LINUX_SERVER", <<>>, NoHostFields),
      RawDevice(4, <<>>, "LINUX_SERVER", <<>>, NoHostFields),
      RawDevice(5, Undefined, "undefined", <<>>, NoHostFields),
      RawDevice(6, sESX1, "VMWARE_VM_HOST", <<>>,
                System(sESX1, sDell, sLatitude, sSN1, ssn1, sCorp, sUnknown, 2, GiB, FALSE,
                       sDesktop)),
      RawDevice(7, sESX2, "VMWARE_VM_HOST",
                <<System(sPC1, sHP, sOptiPlex, sSN1, sSN1, sCorp, sCorp, 8, GiB, FALSE,
                         sDesktop)>>,
                System(<<>>, Undefined, <<>>, Undefined, <<>>, Undefined, <<>>, 0, -1, FALSE,
                       Undefined)),
      RawDevice(8, sVM1, "VMWARE_VM_GUEST",
                <<System(sVM1, sDell, sOptiPlex, sSN1, sSN1, sCorp, sUnknown, 1, GiB, TRUE,
                         sDesktop)>>, NoHostFields),
      RawDevice(9, sProbe, "CLOUD_MONITOR_TARGET", <<>>, NoHostFields) }

RawLists ==
    { l \in UNION { [1..n -> RawPool] : n \in 0..MaxRaw } :
        \A a, b \in DOMAIN l : a # b => l[a].id # l[b].id }

\* text || fallback: undefined and the empty string are falsy.
OrText(text, fallback) == IF text = Undefined \/ text = <<>> THEN fallback ELSE text

\* number || fallback: undefined and 0 are falsy.
OrNumber(number, fallback) == IF number = -1 \/ number = 0 THEN fallback ELSE number

Canonical(device, system) ==
    [id |-> device.id, systemName |-> device.systemName, nodeClass |-> device.nodeClass,
     system |-> system]

createDefaultDeviceDetails_RawName(device) ==
    Canonical(device,
        System(device.systemName, sUnknown, sUnknown, sUnknown, sUnknown, sUnknown,
               sUnknown, 0, 0, FALSE, sUnknown))

createDefaultDeviceDetails(device) ==
    Canonical(device,
        System(OrText(device.systemName, sUnknown), sUnknown, sUnknown, sUnknown, sUnknown,
               sUnknown, sUnknown, 0, 0, FALSE, sUnknown))

createVMwareHostDetails(device) ==
    Canonical(device,
        System(OrText(device.name, sUnknown), OrText(device.vendor, sUnknown),
               OrText(device.model, sUnknown), OrText(device.biosSerialNumber, sUnknown),
               OrText(device.serialNumber, sUnknown), OrText(device.domain, sUnknown),
               OrText(device.domainRole, sUnknown), OrNumber(device.numberOfProcessors, 0),
               OrNumber(device.totalPhysicalMemory, 0), TRUE,
               OrText(device.chassisType, sUnknown)))

createStandardDeviceDetails(device) ==
    Canonical(device,
        System(device.system[1].name, device.system[1].manufacturer,
               device.system[1].model, device.system[1].biosSerialNumber,
               device.system[1].serialNumber, device.system[1].domain,
               device.system[1].domainRole, device.system[1].numberOfProcessors,
               device.system[1].totalPhysicalMemory, device.system[1].virtualMachine,
               device.system[1].chassisType))

createDeviceDetails_SystemFirst(device) ==
    IF device.system = <<>>
    THEN createDefaultDeviceDetails(device)
    ELSE IF device.nodeClass = "VMWARE_VM_HOST"
         THEN createVMwareHostDetails(device)
         ELSE createStandardDeviceDetails(device)

createDeviceDetails(device) ==
    IF device.system = <<>> /\ device.nodeClass # "VMWARE_VM_HOST"
    THEN createDefaultDeviceDetails(device)
    ELSE IF device.nodeClass = "VMWARE_VM_HOST"
         THEN createVMwareHostDetails(device)
         ELSE createStandardDeviceDetails(device)

processDevices_KeepGuests(list) ==
    LET kept == SelectSeq(list, LAMBDA d : d.nodeClass # "CLOUD_MONITOR_TARGET")
    IN [k \in DOMAIN kept |-> createDeviceDetails(kept[k])]

processDevices(list) ==
    LET kept == SelectSeq(list, LAMBDA d : /\ d.nodeClass # "VMWARE_VM_GUEST"
                                          /\ d.nodeClass # "CLOUD_MONITOR_TARGET")
    IN [k \in DOMAIN kept |-> createDeviceDetails(kept[k])]

NinjaInit ==
    /\ NoRun
    /\ GateIdle
    /\ HostIdle
    /\ FlightIdle
    /\ raw \in RawLists
    /\ processed = <<>>
    /\ npc = "listed"
    /\ names = <<>>

\* The handler's call of processDevices on the listing.
ProcessDevices ==
    /\ npc = "listed"
    /\ processed' = processDevices(raw)
    /\ npc' = "processed"
    /\ UNCHANGED <<raw, names, syncVars, gateVars, hostVars, flightVars>>

\* The category name of each nodeClass of the listing: by the switch of
\* getOrCreateAssetCategory and by getExpectedCategoryName.
MapCategories ==
    /\ npc = "processed"
    /\ names' = [k \in DOMAIN raw |->
                    [category |-> CategoryNameFor(raw[k].nodeClass),
                     expected |-> getExpectedCategoryName(raw[k].nodeClass)]]
    /\ npc' = "mapped"
    /\ UNCHANGED <<raw, processed, syncVars, gateVars, hostVars, flightVars>>

NinjaNext ==
    \/ ProcessDevices
    \/ MapCategories

NinjaSpec == NinjaInit /\ [][NinjaNext]_vars

----------------------------------------------------------------------------
(* Claims *)

Over(k) == k < i \/ pc \in {"done", "thrown"}

SerialKey(k) == ToLowerCase(devices[k].system.serialNumber)

AssetCalls(k) ==
    { c \in DOMAIN calls :
        calls[c].dev = k /\ calls[c].op \in {"POST hardware", "PATCH hardware/id"} }

WritesOf(k) == { w \in DOMAIN writes : writes[w].dev = k }

\* C1: a device that fails does not abort the run: the run throws only out of
\* the preload, a failed device is followed by the next one, the run cannot
\* get stuck before its end, and at the end every device has been attempted.
C1_FailedDeviceDoesNotAbort ==
    /\ pc = "thrown" => i = 0
    /\ \A k \in DOMAIN devices : status[k] = "failed" => Over(k) /\ pc # "thrown"
    /\ pc = "done" => \A k \in DOMAIN devices : status[k] \in {"synced", "failed"}
    /\ pc \notin {"done", "thrown"} => ENABLED Next

C1_Witness ==
    /\ pc = "done"
    /\ \E k, j \in DOMAIN devices : k < j /\ status[k] = "failed" /\ status[j] = "synced"

UnknownSerial(k) == devices[k].system.serialNumber \in {<<>>, sUnknown}

\* C3: after an asset has been created for a serial, no later device of the
\* run whose serial lowercases to the same string is given a Create, so the
\* target gets no second asset for it (stated here for the serials that
\* identify a device).
C3_OneCreatePerSerial ==
    \A a, b \in DOMAIN writes :
        (/\ a < b
         /\ ~UnknownSerial(writes[a].dev)
         /\ writes[a].kind = "Create" /\ writes[a].out = "ok"
         /\ SerialKey(writes[a].dev) = SerialKey(writes[b].dev))
        => ~(writes[b].kind = "Create" /\ writes[b].out = "ok")

\* C4: once the asset created for a device is what the preload's asset map
\* holds, planning the device again gives a Patch of that asset, never a
\* second Create.
C4_CreateThenPatch ==
    \A w \in DOMAIN writes :
        (writes[w].kind = "Create" /\ writes[w].out = "ok") =>
            LET d == devices[writes[w].dev]
                bySerial == AssetsBySerial(tHardware)
                again == PlanAsset(d, bySerial,
                                   [id |-> writes[w].model_id, name |-> d.system.model],
                                   [id |-> writes[w].manufacturer_id])
            IN (\E key \in DOMAIN bySerial : bySerial[key].id = writes[w].created)
               => /\ again.kind = "Patch"
                  /\ again.id = writes[w].created

C4_Witness ==
    \E w \in DOMAIN writes :
        /\ writes[w].kind = "Create" /\ writes[w].out = "ok"
        /\ devices[writes[w].dev].system.serialNumber = sSN1
        /\ SerialKey(writes[w].dev) # sSN1
        /\ \E key \in DOMAIN AssetsBySerial(tHardware) :
              AssetsBySerial(tHardware)[key].id = writes[w].created

\* C5: no two distinct devices whose serial is empty or "Unknown" patch the
\* same existing asset.
C5_UnknownSerialsNotCoalesced ==
    \A a, b \in DOMAIN writes :
        (/\ writes[a].dev # writes[b].dev
         /\ UnknownSerial(writes[a].dev) /\ UnknownSerial(writes[b].dev)
         /\ writes[a].kind = "Patch" /\ writes[b].kind = "Patch")
        => writes[a].id # writes[b].id

Unchanged(w) ==
    LET d == devices[writes[w].dev]
        a == assetsBySerial[SerialKey(writes[w].dev)]
    IN /\ d.systemName = a.name
       /\ writes[w].model_id = a.model.id
       /\ writes[w].manufacturer_id = a.manufacturer.id
       /\ d.system.model = a.model_number
       /\ d.system.numberOfProcessors = a.custom_fields._snipeit_processor_count_1
       /\ (d.system.totalPhysicalMemory + (GiB \div 2)) \div GiB
             = a.custom_fields._snipeit_memory_2

\* C7: no write is issued for an existing asset from which the device does
\* not differ in name, model, manufacturer, model number, processors, memory.
C7_NoWriteWithoutChange ==
    \A w \in DOMAIN writes : writes[w].kind = "Patch" => ~Unchanged(w)

\* C8: of name, model_id, manufacturer_id and model_number a Patch carries
\* exactly those in which the device differs from the existing asset, each
\* with the device's (resolved) value, and no other structural field.
C8_StructuralDiffExact ==
    \A w \in DOMAIN writes :
        writes[w].kind = "Patch" =>
            LET d == devices[writes[w].dev]
                a == assetsBySerial[SerialKey(writes[w].dev)]
                p == writes[w].payload
            IN /\ DOMAIN p \subseteq {"name", "model_id", "manufacturer_id", "model_number",
                                      "custom_fields", "notes"}
               /\ "name" \in DOMAIN p <=> d.systemName # a.name
               /\ "name" \in DOMAIN p => p.name = d.systemName
               /\ "model_id" \in DOMAIN p <=> writes[w].model_id # a.model.id
               /\ "model_id" \in DOMAIN p => p.model_id = writes[w].model_id
               /\ "manufacturer_id" \in DOMAIN p <=> writes[w].manufacturer_id # a.manufacturer.id
               /\ "manufacturer_id" \in DOMAIN p => p.manufacturer_id = writes[w].manufacturer_id
               /\ "model_number" \in DOMAIN p <=> d.system.model # a.model_number
               /\ "model_number" \in DOMAIN p => p.model_number = d.system.model

C8_Witness ==
    \E w \in DOMAIN writes :
        /\ writes[w].kind = "Patch"
        /\ {"name", "manufacturer_id"} \subseteq DOMAIN writes[w].payload
        /\ "model_number" \notin DOMAIN writes[w].payload
        /\ "model_id" \notin DOMAIN writes[w].payload

\* C9: two consecutive dispatches through the gate are at least 1000 ms
\* apart, whatever the earlier request's outcome (stated for a service whose
\* first request succeeded, as the first bulk listing of a run has when any
\* other request of the run is made).
C9_DispatchesSpaced ==
    (outcomes # <<>> /\ outcomes[1] = "ok") =>
        \A k \in DOMAIN dispatches : k > 1 => dispatches[k] - dispatches[k - 1] >= 1000

\* C10: a call invokes the request at most twice; twice iff the first
\* invocation ended in a 429, and then not before 2000 ms after it; what the
\* second invocation gives is what the call gives; another first error is
\* thrown without a retry.
C10_SingleRetryOn429 ==
    /\ attempts <= 2
    /\ attempts = 2 => /\ firstOutcome = "429"
                       /\ dispatches[Len(dispatches)] - firstDoneAt >= 2000
    /\ (gpc = "idle" /\ gateResult # "none") =>
          /\ attempts = 2 <=> firstOutcome = "429"
          /\ attempts = 2 =>
                gateResult = IF outcomes[Len(outcomes)] = "ok" THEN "returned" ELSE "thrown"
          /\ firstOutcome = "err" => gateResult = "thrown"
          /\ firstOutcome = "ok" => gateResult = "returned"
    /\ Len(outcomes) <= Len(dispatches)
    /\ Len(dispatches) <= 2 * gateCalls

C10_Witness ==
    /\ gpc = "idle"
    /\ attempts = 2
    /\ gateResult = "thrown"
    /\ outcomes[Len(outcomes)] = "429"

\* A request has just ended, with this outcome.
Ended(out) ==
    /\ Len(outcomes') = Len(outcomes) + 1
    /\ outcomes'[Len(outcomes')] = out

\* C11: lastRequestTime never decreases and changes only in a step in which
\* a dispatched request ends in success; it is left as it is when the gate
\* starts its pre-dispatch wait, when that wait is over, when the backoff
\* after a 429 starts and when a request fails.
C11_LastRequestTimeOnlyOnSuccess ==
    [][/\ lastRequestTime' >= lastRequestTime
       /\ lastRequestTime' # lastRequestTime =>
              /\ gpc \in {"first", "second"}
              /\ Ended("ok")
              /\ lastRequestTime' = now'
       /\ gpc' = "delay" => lastRequestTime' = lastRequestTime
       /\ gpc = "delay" => lastRequestTime' = lastRequestTime
       /\ gpc' = "backoff" => lastRequestTime' = lastRequestTime
       /\ (Ended("429") \/ Ended("err")) => lastRequestTime' = lastRequestTime]_vars

C11_Witness ==
    /\ gpc = "backoff"
    /\ lastRequestTime > 0
    /\ lastRequestTime < firstDoneAt
    /\ \E k \in DOMAIN outcomes : outcomes[k] = "err"
    /\ \E k \in DOMAIN dispatches : k > 1 /\ dispatches[k] - dispatches[k - 1] > 2500

InFlight == Len(issued) - settled

\* C12: every request the run makes has been handed to rateLimitedRequest,
\* the run's record of requests is the gate's record of calls, and at no time
\* is more than one request between being handed to the gate and settling.
C12_OneRequestThroughTheGate ==
    /\ InFlight \in {0, 1}
    /\ Len(calls) <= settled
    /\ Len(issued) <= Len(calls) + 1
    /\ \A c \in DOMAIN issued :
          /\ issued[c].op \in CallSites
          /\ issued[c].via = "rateLimitedRequest"
          /\ issued[c].after = c - 1
    /\ \A c \in DOMAIN calls :
          /\ issued[c].op = calls[c].op
          /\ issued[c].dev = calls[c].dev

C12_Witness ==
    /\ InFlight = 1
    /\ issued[Len(issued)].op = "POST hardware"
    /\ { calls[c].op : c \in DOMAIN calls } =
          {"GET categories", "GET manufacturers", "GET models", "GET hardware",
           "POST manufacturers", "GET models?search", "POST categories", "POST models"}

IssuedFor(k) == { c \in DOMAIN issued : issued[c].dev = k }

\* C13: the devices are taken one at a time in the order of the list: the
\* requests handed to the gate are ordered by device, a request of a later
\* device is handed over only when every request of the earlier devices has
\* settled, the devices before the current one are all over and those after
\* it are untouched.
C13_DevicesOneAtATimeInOrder ==
    /\ \A a, b \in DOMAIN issued :
          a < b => /\ issued[a].dev <= issued[b].dev
                   /\ issued[a].dev < issued[b].dev => a <= issued[b].after
    /\ \A c \in DOMAIN issued : issued[c].dev \in 0..i
    /\ InFlight > 0 => issued[Len(issued)].dev = i
    /\ \A k \in DOMAIN devices :
          /\ k < i => status[k] \in {"synced", "failed"}
          /\ k > i => status[k] = "pending" /\ IssuedFor(k) = {}
          /\ status[k] # "pending" => \A c \in IssuedFor(k) : c <= settled

C13_Witness ==
    /\ Len(devices) = 2
    /\ i = 2
    /\ InFlight = 1
    /\ status[1] = "failed"
    /\ Cardinality(IssuedFor(1)) >= 2
    /\ Cardinality(IssuedFor(2)) >= 2

Preload == <<"GET categories", "GET manufacturers", "GET models", "GET hardware">>

Times(op) == Cardinality({ c \in DOMAIN issued : issued[c].op = op })

\* C14: the first four requests of a run are the listings of categories,
\* manufacturers, models and assets, in this order; a request of a device is
\* handed to the gate only after all four have settled, and they returned;
\* the manufacturer, model and asset listings are never requested twice, and
\* each has been requested once when the first device is taken.
C14_PreloadBeforeDevices ==
    /\ \A c \in DOMAIN issued :
          /\ c <= 4 => issued[c].op = Preload[c] /\ issued[c].dev = 0
          /\ c > 4 => /\ issued[c].dev >= 1
                      /\ issued[c].after >= 4
                      /\ \A k \in 1..4 : calls[k].op = Preload[k] /\ calls[k].out = "ok"
    /\ \A k \in 2..4 : Times(Preload[k]) <= 1
    /\ (i >= 1 \/ pc = "done") => \A k \in 2..4 : Times(Preload[k]) = 1

C14_Witness ==
    /\ pc = "done"
    /\ Len(devices) = 2
    /\ Times("GET categories") = 3
    /\ Times("GET models?search") = 2

\* C15: when one of the seven configuration options is absent the run fails
\* before any request is made: none to the directory, none to the target,
\* and the handler does not return a count.
C15_AbsentOptionFailsAtStartup ==
    env # Options =>
        /\ netCalls = <<>>
        /\ calls = <<>>
        /\ hpc # "returned"

TokenFailed ==
    \E n \in DOMAIN netCalls : netCalls[n].op = "POST token" /\ netCalls[n].out = "err"

\* C16: when the credential exchange fails the run is over at once: the
\* handler has thrown, the token request is the only request made to the
\* directory, the device listing is not requested, nothing is requested of
\* the target and no count is returned.
C16_TokenFailureAborts ==
    TokenFailed =>
        /\ hpc = "threw"
        /\ Len(netCalls) = 1
        /\ \A n \in DOMAIN netCalls : netCalls[n].op # "GET devices"
        /\ calls = <<>>
        /\ issued = <<>>
        /\ reported = -1

C16_Witness ==
    /\ env = Options
    /\ TokenFailed
    /\ netCalls[1].path = "NinjaAuthEndpoint"
    /\ hpc = "threw"

\* A top-level stage has failed: the validation, a request to the
\* directory, or one of the four listings of the preload.
StageFailed ==
    \/ hpc # "validate" /\ ~(RequiredVars \subseteq env)
    \/ \E n \in DOMAIN netCalls : netCalls[n].out = "err"
    \/ \E c \in DOMAIN calls : c <= 4 /\ calls[c].dev = 0 /\ calls[c].out = "err"

PerDeviceCalls == { c \in DOMAIN calls : calls[c].dev >= 1 }

\* C17: when a top-level stage has failed the handler throws (it has
\* thrown, or syncDevices has and the handler's catch is next), no count is
\* returned, and no per-device request has been made: the target has been
\* asked for listings only and no device has been touched.
C17_StageFailureThrowsBeforeDevices ==
    StageFailed =>
        /\ hpc = "threw" \/ (hpc = "sync" /\ pc = "thrown" /\ ENABLED HandlerCatches)
        /\ reported = -1
        /\ PerDeviceCalls = {}
        /\ \A c \in DOMAIN calls : calls[c].op \in
               {"GET categories", "GET manufacturers", "GET models", "GET hardware"}
        /\ writes = <<>>
        /\ \A k \in DOMAIN devices : status[k] = "pending"

C17_Witness ==
    /\ hpc = "threw"
    /\ Len(netCalls) = 2
    /\ Len(calls) = 3
    /\ calls[3].op = "GET models"
    /\ calls[3].out = "err"

\* C18: the count a completed run returns is the number of devices that
\* were synced; a device whose processing failed is not counted.
C18_ReportedCountIsSynced ==
    hpc = "returned" =>
        reported = Cardinality({ k \in DOMAIN devices : status[k] = "synced" })

WriteOps ==
    {"POST manufacturers", "POST categories", "POST models", "PUT models/id",
     "POST hardware", "PATCH hardware/id"}

ManufacturerKey(k) == ToLowerCase(devices[k].system.manufacturer)

ModelKey(k) == ToLowerCase(devices[k].system.model)

\* C19: a create or update that the target answers with a body of status
\* error has failed, whatever the HTTP status: the device it was made for
\* fails with it and is never synced, and nothing is cached from the answer.
C19_StatusErrorIsFailure ==
    \A c \in DOMAIN calls :
        (calls[c].op \in WriteOps /\ calls[c].out = "rejected") =>
            /\ status[calls[c].dev] = "failed"
            /\ (c = Len(calls) /\ calls[c].op = "POST manufacturers") =>
                  ManufacturerKey(calls[c].dev) \notin DOMAIN manufacturerCache

IdByName(rows, name) ==
    IF \E k \in DOMAIN rows : rows[k].name = name
    THEN rows[CHOOSE k \in DOMAIN rows : rows[k].name = name].id
    ELSE 0

\* C20: a manufacturer, category or model that the target has created or
\* updated is cached with the id the target gave it, whether the answer was
\* the bare record or a {status, payload} envelope; the manufacturer in hand
\* after its creation has that id.
C20_CreatedRecordsCarryIds ==
    \A c \in DOMAIN calls :
        calls[c].out = "ok" =>
            LET k == calls[c].dev
            IN /\ calls[c].op = "POST manufacturers" =>
                     /\ manufacturerCache[ManufacturerKey(k)].id # 0
                     /\ manufacturerCache[ManufacturerKey(k)].id
                           = IdByName(tManufacturers, devices[k].system.manufacturer)
                     /\ manufacturersByName[ManufacturerKey(k)].id # 0
                     /\ (c = Len(calls) => manufacturer.id # 0)
               /\ calls[c].op = "POST categories" =>
                     categoryCache[ToLowerCase(CategoryNameFor(devices[k].nodeClass))].id # 0
               /\ calls[c].op \in {"POST models", "PUT models/id"} =>
                     modelsByName[ModelKey(k)].id # 0

\* The step appends a request of the current device to the run's requests.
Requests(op) ==
    /\ Len(calls') = Len(calls) + 1
    /\ calls'[Len(calls')].op = op
    /\ calls'[Len(calls')].dev = i

ManufacturerCreates == { c \in DOMAIN calls : calls[c].op = "POST manufacturers" }

\* C21: resolving the manufacturer of a device makes no request when the
\* lowercased name is in the manufacturer map; when it is not, it makes one
\* POST manufacturers and, unless that throws, puts the answer in the map
\* under the lowercased name.  So no name that a create has answered for is
\* created again, a device makes at most one create, a create is made at no
\* other place, and a manufacturer of the target is never changed.
C21_ManufacturerResolution ==
    /\ [](/\ \A a, b \in ManufacturerCreates :
               (a < b /\ calls[a].out # "err")
               => ManufacturerKey(calls[a].dev) # ManufacturerKey(calls[b].dev)
          /\ \A a, b \in ManufacturerCreates : calls[a].dev = calls[b].dev => a = b
          /\ \A c \in DOMAIN calls : calls[c].op \in CallSites)
    /\ [][/\ pc = "manufacturer" =>
               LET key == ManufacturerKey(i)
               IN IF key \in DOMAIN manufacturersByName
                  THEN /\ calls' = calls
                       /\ manufacturer' = manufacturersByName[key]
                       /\ UNCHANGED <<manufacturersByName, manufacturerCache>>
                  ELSE /\ Requests("POST manufacturers")
                       /\ calls'[Len(calls')].out # "err" =>
                             /\ DOMAIN manufacturersByName'
                                   = DOMAIN manufacturersByName \cup {key}
                             /\ manufacturersByName'[key] = manufacturer'
                             /\ manufacturerCache'[key] = manufacturer'
                             /\ pc' = "model"
          /\ pc # "manufacturer" => ~Requests("POST manufacturers")
          /\ \A k \in DOMAIN tManufacturers :
                k \in DOMAIN tManufacturers' /\ tManufacturers'[k] = tManufacturers[k]]_vars

C21_Witness ==
    /\ pc = "done"
    /\ Len(devices) = 2
    /\ ManufacturerKey(1) = ManufacturerKey(2)
    /\ Cardinality(ManufacturerCreates) = 1
    /\ \A c \in ManufacturerCreates : calls[c].dev = 1 /\ calls[c].out = "ok"
    /\ status[2] = "synced"

CategoryKey(k) == ToLowerCase(CategoryNameFor(devices[k].nodeClass))

CategoryCreates == { c \in DOMAIN calls : calls[c].op = "POST categories" }

\* The id of the target's category of this lowercased name, 0 if it has none.
CategoryIdOf(key) ==
    IF key \in LowerNames(tCategories)
    THEN tCategories[CHOOSE k \in DOMAIN tCategories :
                        ToLowerCase(tCategories[k].name) = key].id
    ELSE 0

\* C22 as stated: across the whole run at most one category creation call is
\* issued per category name.
C22_OneCreationCallPerName ==
    \A a, b \in CategoryCreates :
        CategoryKey(calls[a].dev) = CategoryKey(calls[b].dev) => a = b

\* C22, amended: every call of getOrCreateAssetCategory that returns gives
\* the one category the target has under the name, whose id never changes,
\* so two calls with the same nodeClass return the same id; and once a
\* creation call for a name has been accepted no other is issued for it (a
\* creation call that failed can be followed by another).
C22_CategoryIdempotent ==
    /\ [](/\ \A a, b \in DOMAIN tCategories :
                ToLowerCase(tCategories[a].name) = ToLowerCase(tCategories[b].name)
                => a = b
          /\ \A a, b \in CategoryCreates :
                (a < b /\ CategoryKey(calls[a].dev) = CategoryKey(calls[b].dev))
                => calls[a].out # "ok"
          /\ pc \in {"put", "post"} =>
                /\ category.id # 0
                /\ category.id = CategoryIdOf(CategoryKey(i))
                /\ ToLowerCase(category.name) = CategoryKey(i))
    /\ [][\A k \in DOMAIN tCategories :
             k \in DOMAIN tCategories' /\ tCategories'[k] = tCategories[k]]_vars

C22_Witness ==
    /\ Len(devices) = 2
    /\ CategoryKey(1) = CategoryKey(2)
    /\ i = 2
    /\ pc = "post"
    /\ Cardinality(CategoryCreates) = 1
    /\ \A c \in CategoryCreates : calls[c].dev = 1 /\ calls[c].out = "ok"
    /\ category.id = CategoryIdOf(CategoryKey(1))

\* C23: a category creation call is issued only when the listing fetched in
\* the same resolution, after the cache miss, lacks the lowercased name; when
\* that listing has the name the listed category is returned and no creation
\* call is made.
C23_CreateAfterFreshListing ==
    /\ [](/\ pc \in {"catList", "catCreate"} => CategoryKey(i) \notin DOMAIN categoryCache
          /\ pc = "catCreate" =>
                /\ calls[Len(calls)] = [dev |-> i, op |-> "GET categories", out |-> "ok"]
                /\ categoryCache = ByLowerName(tCategories))
    /\ [][/\ Requests("POST categories") => pc = "catCreate"
          /\ (pc = "catList" /\ Requests("GET categories")
                             /\ calls'[Len(calls')].out = "ok") =>
                IF CategoryKey(i) \in LowerNames(tCategories)
                THEN /\ pc' = ret
                     /\ category'.id = CategoryIdOf(CategoryKey(i))
                     /\ ToLowerCase(category'.name) = CategoryKey(i)
                ELSE pc' = "catCreate"
          /\ (pc = "catList" /\ pc' # "catList") => Requests("GET categories")]_vars

\* The relisting found a category that the preload had not seen.
C23_Witness ==
    /\ pc \in {"put", "post"}
    /\ calls[Len(calls)] = [dev |-> i, op |-> "GET categories", out |-> "ok"]
    /\ category.id = CategoryIdOf(CategoryKey(i))
    /\ category.id # 0
    /\ CategoryCreates = {}

ModelUpdates == { c \in DOMAIN calls : calls[c].op = "PUT models/id" }

\* The device at hand found its model in the map (no search was made for it).
CacheHit == \A c \in DOMAIN calls :
               calls[c].dev = i => calls[c].op # "GET models?search"

\* C24: on a cache hit with drift one model update call is issued for the
\* device, and the model then used for the asset write and stored in the
\* model map is the updated one, carrying the resolved manufacturer and the
\* expected category; without drift no update call is issued.
C24_DriftCorrection ==
    /\ [](\A a, b \in ModelUpdates : calls[a].dev = calls[b].dev => a = b)
    /\ [][/\ (pc = "drift" /\ ~NeedsUpdate(model, manufacturer, devices[i].nodeClass))
                => (pc' = "asset" /\ calls' = calls /\ model' = model)
          /\ Requests("PUT models/id")
                => (pc = "put" /\ NeedsUpdate(model, manufacturer, devices[i].nodeClass))
          /\ (CacheHit /\ pc = "put" /\ pc' = "asset") =>
                /\ Requests("PUT models/id")
                /\ model'.id = model.id
                /\ modelsByName'[ModelKey(i)] = model'
                /\ HasId(tModels', model'.id)
                /\ RowById(tModels', model'.id).manufacturer_id = manufacturer.id
                /\ RowById(tModels', model'.id).category_id = CategoryIdOf(CategoryKey(i))]_vars

ModelSearches == { c \in DOMAIN calls : calls[c].op = "GET models?search" }

ModelCreates == { c \in DOMAIN calls : calls[c].op = "POST models" }

\* The target has a model of the name of the device at hand.
InTarget == ModelKey(i) \in LowerNames(tModels)

\* C25: on a cache miss one search by name is made for the device; a model
\* of the same lowercased name that the search finds is cached and goes to
\* the same drift check; a model is created only after the device's search
\* found none, and the created model has the resolved manufacturer's id and
\* the id of the category mapped from the nodeClass.
C25_ModelMiss ==
    /\ [](/\ \A a, b \in ModelSearches : calls[a].dev = calls[b].dev => a = b
          /\ \A a, b \in ModelCreates : calls[a].dev = calls[b].dev => a = b
          /\ \A c \in ModelCreates :
                \E a \in ModelSearches :
                    a < c /\ calls[a].dev = calls[c].dev /\ calls[a].out = "ok"
          /\ pc = "search" => ModelKey(i) \notin DOMAIN modelsByName)
    /\ [][/\ pc = "model" =>
                /\ calls' = calls
                /\ (pc' = "search") <=> (ModelKey(i) \notin DOMAIN modelsByName)
          /\ Requests("GET models?search") => pc = "search"
          /\ (pc = "search" /\ pc' # "search") =>
                /\ Requests("GET models?search")
                /\ IF calls'[Len(calls')].out = "ok" /\ InTarget
                   THEN /\ pc' = "drift"
                        /\ ToLowerCase(model'.name) = ModelKey(i)
                        /\ HasId(tModels, model'.id)
                        /\ modelsByName'[ModelKey(i)] = model'
                   ELSE /\ pc' # "drift"
                        /\ modelsByName' = modelsByName
          /\ Requests("POST models") => (pc = "post" /\ ~InTarget)
          /\ (Requests("POST models") /\ calls'[Len(calls')].out = "ok") =>
                /\ Len(tModels') = Len(tModels) + 1
                /\ tModels'[Len(tModels')].name = devices[i].system.model
                /\ tModels'[Len(tModels')].manufacturer_id = manufacturer.id
                /\ manufacturer.id # 0
                /\ tModels'[Len(tModels')].category_id = CategoryIdOf(CategoryKey(i))
                /\ CategoryIdOf(CategoryKey(i)) # 0
                /\ modelsByName'[ModelKey(i)].id = tModels'[Len(tModels')].id]_vars

\* Device 1's search found none and its model was created; device 2's search
\* found a model made after the preload, which is cached and goes to the
\* drift check.
C25_Witness ==
    /\ Len(devices) = 2
    /\ i = 2
    /\ pc = "drift"
    /\ calls[Len(calls)] = [dev |-> 2, op |-> "GET models?search", out |-> "ok"]
    /\ \E c \in ModelCreates : calls[c].dev = 1 /\ calls[c].out = "ok"
    /\ \E a \in ModelSearches : calls[a].dev = 1 /\ calls[a].out = "ok"
    /\ ModelKey(1) # ModelKey(2)
    /\ modelsByName[ModelKey(2)] = model
    /\ status[1] = "synced"

Accepted(op) == { c \in DOMAIN calls : calls[c].op = op /\ calls[c].out = "ok" }

\* Every record of the target was made by this run: the target was empty.
StartedEmpty ==
    /\ Len(tManufacturers) = Cardinality(Accepted("POST manufacturers"))
    /\ Len(tCategories) = Cardinality(Accepted("POST categories"))
    /\ Len(tModels) = Cardinality(Accepted("POST models"))
    /\ Len(tHardware) = Cardinality(Accepted("POST hardware"))

WriteCallsOf(k) ==
    LET mine == SelectSeq(calls, LAMBDA c : c.dev = k /\ c.op \in WriteOps)
    IN [n \in DOMAIN mine |-> mine[n].op]

\* C26: for a device whose manufacturer, category, model and asset are all
\* absent from the target (the first device against an empty target, seen
\* before the next device makes a request), when every request made for it
\* succeeded, the write calls are create
\* manufacturer, create category, create model and create asset in this
\* order, the model bound to that manufacturer and category and the asset to
\* that model and manufacturer.
C26_AllAbsentChain ==
    (/\ StartedEmpty
     /\ Over(1)
     /\ pc # "thrown"
     /\ \A c \in DOMAIN calls : calls[c].dev <= 1
     /\ \A c \in DOMAIN calls : calls[c].dev = 1 => calls[c].out = "ok")
    => /\ WriteCallsOf(1) = <<"POST manufacturers", "POST categories", "POST models",
                              "POST hardware">>
       /\ status[1] = "synced"
       /\ tModels[1].manufacturer_id = tManufacturers[1].id
       /\ tModels[1].category_id = tCategories[1].id
       /\ tHardware[1].model.id = tModels[1].id
       /\ tHardware[1].manufacturer.id = tManufacturers[1].id

Excluded == {"VMWARE_VM_GUEST", "CLOUD_MONITOR_TARGET"}

\* The records of the listing that are not of an excluded class, and the
\* place of such a record among them.
Kept == { k \in DOMAIN raw : raw[k].nodeClass \notin Excluded }

Place(k) == Cardinality({ j \in Kept : j <= k })

Normalised == npc \in {"processed", "mapped"}

\* C27: processDevices drops the records of class VMWARE_VM_GUEST and
\* CLOUD_MONITOR_TARGET and nothing else, and gives one device for every other
\* record, in the order of the listing, with the record's id, systemName and
\* nodeClass.
C27_ExcludesExactlyTwoClasses ==
    Normalised =>
        /\ Len(processed) = Cardinality(Kept)
        /\ \A k \in Kept :
              /\ processed[Place(k)].id = raw[k].id
              /\ processed[Place(k)].systemName = raw[k].systemName
              /\ processed[Place(k)].nodeClass = raw[k].nodeClass

C27_Witness ==
    /\ Normalised
    /\ Len(raw) = 3
    /\ raw[1].nodeClass = "VMWARE_VM_GUEST"
    /\ raw[2].nodeClass = "LINUX_SERVER"
    /\ raw[3].nodeClass = "CLOUD_MONITOR_TARGET"
    /\ Len(processed) = 1
    /\ processed[1].id = raw[2].id

Unset(text) == text = Undefined \/ text = <<>>

\* C28: a record without a system block whose class is not VMWARE_VM_HOST
\* gets the default block: 0 processors, 0 memory, virtualMachine false and
\* "Unknown" for every string, except that name is the systemName, or
\* "Unknown" when the systemName is empty.
C28_DefaultSystemBlock ==
    Normalised =>
        \A k \in Kept :
            (raw[k].system = <<>> /\ raw[k].nodeClass # "VMWARE_VM_HOST") =>
                LET sys == processed[Place(k)].system
                IN /\ sys.numberOfProcessors = 0
                   /\ sys.totalPhysicalMemory = 0
                   /\ sys.virtualMachine = FALSE
                   /\ sys.manufacturer = sUnknown /\ sys.model = sUnknown
                   /\ sys.biosSerialNumber = sUnknown /\ sys.serialNumber = sUnknown
                   /\ sys.domain = sUnknown /\ sys.domainRole = sUnknown
                   /\ sys.chassisType = sUnknown
                   /\ sys.name = IF Unset(raw[k].systemName) THEN sUnknown
                                                            ELSE raw[k].systemName

\* A record with a systemName and one with an empty one, both defaulted.
C28_Witness ==
    /\ Normalised
    /\ Len(processed) = 2
    /\ raw[1].system = <<>> /\ raw[1].systemName = sNAS1
    /\ raw[2].system = <<>> /\ raw[2].systemName = <<>>
    /\ processed[1].system.name = sNAS1
    /\ processed[2].system.name = sUnknown
    /\ processed[2].system.serialNumber = sUnknown

HostField(text) == IF Unset(text) THEN sUnknown ELSE text

HostNumber(number) == IF number <= 0 THEN 0 ELSE number

\* C29: createDeviceDetails gives a device for every record and takes one
\* normalisation: a VMWARE_VM_HOST gets its top-level fields, defaulted
\* where unset, with virtualMachine true, whether or not it has a system
\* block; another record with a system block gets the block's eleven fields
\* as they are; another record without one gets the default block.
C29_OneNormalisationPerDevice ==
    Normalised =>
        /\ Len(processed) = Cardinality(Kept)
        /\ \A k \in Kept :
              LET d == raw[k]
                  sys == processed[Place(k)].system
              IN CASE d.nodeClass = "VMWARE_VM_HOST" ->
                        /\ sys.virtualMachine = TRUE
                        /\ sys.name = HostField(d.name)
                        /\ sys.manufacturer = HostField(d.vendor)
                        /\ sys.model = HostField(d.model)
                        /\ sys.biosSerialNumber = HostField(d.biosSerialNumber)
                        /\ sys.serialNumber = HostField(d.serialNumber)
                        /\ sys.domain = HostField(d.domain)
                        /\ sys.domainRole = HostField(d.domainRole)
                        /\ sys.chassisType = HostField(d.chassisType)
                        /\ sys.numberOfProcessors = HostNumber(d.numberOfProcessors)
                        /\ sys.totalPhysicalMemory = HostNumber(d.totalPhysicalMemory)
                   [] d.nodeClass # "VMWARE_VM_HOST" /\ d.system # <<>> ->
                        sys = d.system[1]
                   [] OTHER ->
                        /\ sys.virtualMachine = FALSE
                        /\ sys.serialNumber = sUnknown
                        /\ sys.manufacturer = sUnknown
                        /\ sys.numberOfProcessors = 0

\* A host without a system block, an agent with one and an agent without.
C29_Witness ==
    /\ Normalised
    /\ Len(processed) = 3
    /\ raw[1].nodeClass = "VMWARE_VM_HOST" /\ raw[1].system = <<>>
    /\ processed[1].system.virtualMachine = TRUE
    /\ processed[1].system.manufacturer = sDell
    /\ raw[2].nodeClass = "WINDOWS_SERVER" /\ raw[2].system # <<>>
    /\ processed[2].system.serialNumber = Undefined
    /\ raw[3].nodeClass = "LINUX_SERVER" /\ raw[3].system = <<>>
    /\ processed[3].system.serialNumber = sUnknown

CategoryTable ==
    [WINDOWS_SERVER |-> sWindowsServers, WINDOWS_WORKSTATION |-> sWindowsWorkstations,
     VMWARE_VM_HOST |-> sVMwareHosts]

\* C30: the category name of a nodeClass is a function of the nodeClass alone
\* and exists for every nodeClass: "Windows Servers", "Windows Workstations"
\* and "VMware Hosts" for the three classes of the table, "Other Hardware"
\* for any other value, undefined included; the switch of
\* getOrCreateAssetCategory and getExpectedCategoryName agree.
C30_CategoryMappingTotal ==
    npc = "mapped" =>
        /\ Len(names) = Len(raw)
        /\ \A k \in DOMAIN raw :
              /\ names[k].category =
                    IF raw[k].nodeClass \in DOMAIN CategoryTable
                    THEN CategoryTable[raw[k].nodeClass] ELSE sOtherHardware
              /\ names[k].expected = names[k].category
        /\ \A a, b \in DOMAIN raw :
              raw[a].nodeClass = raw[b].nodeClass => names[a] = names[b]

C30_Witness ==
    /\ npc = "mapped"
    /\ Len(raw) = 3
    /\ raw[1].nodeClass = "VMWARE_VM_HOST" /\ names[1].category = sVMwareHosts
    /\ raw[2].nodeClass = "undefined" /\ names[2].category = sOtherHardware
    /\ raw[3].nodeClass = "WINDOWS_SERVER" /\ names[3].expected = sWindowsServers

\* r is bytes / 2^30 rounded to the nearest integer, a half going up:
\* r - 1/2 <= bytes / 2^30 < r + 1/2.
NearestGiB(r, bytes) ==
    /\ r * GiB - (GiB \div 2) <= bytes
    /\ bytes < r * GiB + (GiB \div 2)

\* C31: the payload of an asset Create is status_id 1, the ids of the model
\* and of the manufacturer resolved for the device, the systemName as name,
\* the device's serial and model, the processor count, and as memory the
\* bytes divided by 2^30 and rounded to the nearest integer, halves upwards;
\* the custom fields of a Patch have the same processor and memory values.
C31_AssetPayload ==
    \A w \in DOMAIN writes :
        LET d == devices[writes[w].dev]
            p == writes[w].payload
        IN /\ writes[w].kind = "Create" =>
                /\ p.status_id = 1
                /\ p.model_id = writes[w].model_id
                /\ p.manufacturer_id = writes[w].manufacturer_id
                /\ p.name = d.systemName
                /\ p.serial = d.system.serialNumber
                /\ p.model_number = d.system.model
           /\ p.custom_fields._snipeit_processor_count_1 = d.system.numberOfProcessors
           /\ NearestGiB(p.custom_fields._snipeit_memory_2, d.system.totalPhysicalMemory)

\* A Create for a device with exactly half a GiB (memory 1) and a Patch for
\* a device with one byte less (memory 0).
C31_Witness ==
    /\ \E w \in DOMAIN writes :
          /\ writes[w].kind = "Create"
          /\ writes[w].out = "ok"
          /\ devices[writes[w].dev].system.totalPhysicalMemory = GiB \div 2
          /\ writes[w].payload.custom_fields._snipeit_memory_2 = 1
          /\ writes[w].payload.model_id # 0
    /\ \E w \in DOMAIN writes :
          /\ writes[w].kind = "Patch"
          /\ devices[writes[w].dev].system.totalPhysicalMemory = (GiB \div 2) - 1
          /\ writes[w].payload.custom_fields._snipeit_memory_2 = 0

ModelWrites == {"POST models", "PUT models/id"}

SameModelling(a, b) ==
    /\ ModelKey(a) = ModelKey(b)
    /\ ManufacturerKey(a) = ManufacturerKey(b)
    /\ devices[a].nodeClass = devices[b].nodeClass

\* C32: once a model create or update made for a device has been accepted,
\* no model create or update is issued for a later device of the same model
\* name, manufacturer and nodeClass; and a model update is issued only when
\* the model's manufacturer or category differs from what the device
\* resolves to.
C32_ModelsConverge ==
    /\ [](\A a, b \in DOMAIN calls :
             (/\ a < b
              /\ calls[a].op \in ModelWrites
              /\ calls[a].out = "ok"
              /\ calls[a].dev < calls[b].dev
              /\ SameModelling(calls[a].dev, calls[b].dev))
             => calls[b].op \notin ModelWrites)
    /\ [][Requests("PUT models/id")
            => NeedsUpdate(model, manufacturer, devices[i].nodeClass)]_vars

AssetOps == {"POST hardware", "PATCH hardware/id"}

\* The asset write recorded for call c (the writes are in the order of the
\* asset calls).
WriteAt(c) ==
    writes[Cardinality({ a \in DOMAIN calls : a <= c /\ calls[a].op \in AssetOps })]

\* C33: the asset write of a device is the last request made for it, and it
\* is made only after the manufacturer and then the model of the device have
\* been resolved successfully: every earlier request for the device was
\* answered with success, and the write carries the ids of a manufacturer and
\* of a model; a device one of whose resolutions failed gets no asset write.
C33_AssetWriteAfterResolution ==
    \A c \in DOMAIN calls :
        calls[c].op \in AssetOps =>
            /\ \A b \in DOMAIN calls : b > c => calls[b].dev # calls[c].dev
            /\ \A a \in DOMAIN calls :
                  (a < c /\ calls[a].dev = calls[c].dev) => calls[a].out = "ok"
            /\ WriteAt(c).dev = calls[c].dev
            /\ WriteAt(c).manufacturer_id # 0
            /\ WriteAt(c).model_id # 0

\* C34: when a call of rateLimitedRequest has returned a result, on its
\* first attempt or on the retry after a 429, lastRequestTime is not earlier
\* than the dispatch of the attempt that succeeded.
C34_LastRequestTimeSetOnReturn ==
    (gpc = "idle" /\ gateResult = "returned")
    => lastRequestTime >= dispatches[Len(dispatches)]

\* The values a nodeClass has in the listings, undefined among them.
NodeClassValues ==
    {"WINDOWS_SERVER", "WINDOWS_WORKSTATION", "VMWARE_VM_HOST", "LINUX_SERVER",
     "VMWARE_VM_GUEST", "CLOUD_MONITOR_TARGET", "undefined"}

ModelWritten ==
    /\ Requests("POST models") \/ Requests("PUT models/id")
    /\ calls'[Len(calls')].out = "ok"

\* The target's model that the accepted write of this step made or changed.
WrittenModel ==
    IF calls'[Len(calls')].op = "POST models"
    THEN ModelView(tModels'[Len(tModels')], tCategories')
    ELSE ModelView(RowById(tModels', model.id), tCategories')

\* C35: the two nodeClass mappings agree: the switch of
\* getOrCreateAssetCategory and getExpectedCategoryName give the same name
\* for every nodeClass, the category that getOrCreateAssetCategory returns
\* for a device has the expected name, and a model created or updated with
\* that category passes isModelCategoryCorrect for the device's nodeClass.
C35_MappingsAgree ==
    /\ [](/\ \A nc \in NodeClassValues :
                CategoryNameFor(nc) = getExpectedCategoryName(nc)
          /\ pc \in {"put", "post"} =>
                ToLowerCase(category.name)
                   = ToLowerCase(getExpectedCategoryName(devices[i].nodeClass)))
    /\ [][ModelWritten =>
            /\ isModelCategoryCorrect(WrittenModel, devices[i].nodeClass)
            /\ WrittenModel.category.id = category.id]_vars

\* The model of a server, listed under another category, has been updated
\* and is now found correct.
C35_Witness ==
    /\ pc = "asset"
    /\ devices[i].nodeClass = "WINDOWS_SERVER"
    /\ calls[Len(calls)] = [dev |-> i, op |-> "PUT models/id", out |-> "ok"]
    /\ HasId(tModels, model.id)
    /\ isModelCategoryCorrect(ModelView(RowById(tModels, model.id), tCategories),
                              "WINDOWS_SERVER")
    /\ \E k \in DOMAIN modelCache :
          modelCache[k].id = model.id /\ ~isModelCategoryCorrect(modelCache[k], "WINDOWS_SERVER")

====
